---- MODULE Spec2Model ----
(***************************************************************************)
(* A11y Live: the analysis pipeline of src/src/core/engine.js (A11yEngine), *)
(* the rule engine of src/unnamed/part_002 (RuleEngine), the Reporter of    *)
(* src/src/core/reporter.js and the result sink of src/src/ui/ui-Manager.js *)
(* (UIManager.updateResults).                                               *)
(*                                                                          *)
(* The host document is a small tree of elements; each element carries one  *)
(* of a few concrete markups, and its serialized markup (outerHTML) is a    *)
(* sequence of character codes, so the 32-bit fingerprint hash of           *)
(* _getCacheKey is computed as the code computes it.                        *)
(***************************************************************************)
EXTENDS Integers, Sequences, FiniteSets, TLC

(***************************************************************************)
(* Bounds of the model.                                                     *)
(***************************************************************************)
\* number of elements of the host document (element 1 is the target root)
NumElems == 4
\* largest value of the maxElements option that is explored
MaxCap == 2
\* most batches that wait in the pending queue at once
MaxQueue == 2
\* most analysis passes suspended at an await at once
MaxInFlight == 2
\* most analysis passes the engine is followed through
MaxAnalyses == 3

\* the longest list of raw violations handed to processResults
MaxRaw == 3
\* the size limit the cache is held against
CacheLimit == 2
\* the longest list of elements handed to executeRules
MaxBatch == 2
\* most headings of a page
MaxHeadings == 3

(***************************************************************************)
(* The host document.                                                       *)
(***************************************************************************)
Elems == 1..NumElems

\* a value that is no element: a text node, null, ...
NotAnElement == 0

\* the tree: 1 is <div id="app"> (options.target), a child of the body,
\* 2 a <button> in it, 3 an <img> inside the button; every further element
\* is an <img> in the body, beside the div (0 stands for the body)
Parent(e) == IF e = 2 THEN 1 ELSE IF e = 3 THEN 2 ELSE 0

Children(e) == {c \in Elems : c # e /\ Parent(c) = e}

\* ascending sequence of a set of elements: document order, which for this
\* tree (pre-order 1, 2, 3, 4, ...) is the numeric order
RECURSIVE SortedSeq(_)
SortedSeq(S) ==
    IF S = {} THEN <<>>
    ELSE LET m == CHOOSE x \in S : \A y \in S : x <= y
         IN <<m>> \o SortedSeq(S \ {m})

RECURSIVE IsUnder(_, _)
IsUnder(e, a) ==
    IF e = 1 \/ e = 0 THEN FALSE
    ELSE Parent(e) = a \/ IsUnder(Parent(e), a)

\* element.querySelectorAll("*"): the descendants, in document order
QuerySelectorAll(e) == SortedSeq({c \in Elems : IsUnder(c, e)})

\* the markups an element can carry; open is the serialized start tag with
\* the element's own text, as character codes
Markups ==
    << [tag |-> "DIV", id |-> "app", cls |-> "", text |-> "",
        hasAlt |-> FALSE, altText |-> "", badAria |-> FALSE,
        \* <div id="app">
        open |-> <<60, 100, 105, 118, 32, 105, 100, 61, 34, 97, 112, 112, 34, 62>>,
        \* </div>
        close |-> <<60, 47, 100, 105, 118, 62>>],
       [tag |-> "BUTTON", id |-> "", cls |-> "", text |-> "",
        hasAlt |-> FALSE, altText |-> "", badAria |-> TRUE,
        \* <button aria-foo="1">
        open |-> <<60, 98, 117, 116, 116, 111, 110, 32, 97, 114, 105, 97, 45,
                   102, 111, 111, 61, 34, 49, 34, 62>>,
        \* </button>
        close |-> <<60, 47, 98, 117, 116, 116, 111, 110, 62>>],
       [tag |-> "BUTTON", id |-> "", cls |-> "", text |-> "OK",
        hasAlt |-> FALSE, altText |-> "", badAria |-> FALSE,
        \* <button>OK
        open |-> <<60, 98, 117, 116, 116, 111, 110, 62, 79, 75>>,
        close |-> <<60, 47, 98, 117, 116, 116, 111, 110, 62>>],
       [tag |-> "IMG", id |-> "", cls |-> "", text |-> "",
        hasAlt |-> FALSE, altText |-> "", badAria |-> FALSE,
        \* <img src="x.png">
        open |-> <<60, 105, 109, 103, 32, 115, 114, 99, 61, 34, 120, 46, 112,
                   110, 103, 34, 62>>,
        close |-> <<>>],
       [tag |-> "IMG", id |-> "", cls |-> "", text |-> "",
        hasAlt |-> TRUE, altText |-> "x", badAria |-> FALSE,
        \* <img src="x.png" alt="x">
        open |-> <<60, 105, 109, 103, 32, 115, 114, 99, 61, 34, 120, 46, 112,
                   110, 103, 34, 32, 97, 108, 116, 61, 34, 120, 34, 62>>,
        close |-> <<>>] >>

\* the markups element e can carry (an attribute or text edit moves e from
\* one to another)
MarkupsOf(e) ==
    IF e = 1 THEN {1} ELSE IF e = 2 THEN {2, 3} ELSE IF e = 3 THEN {4, 5}
    \* the page never edits the images beside the target
    ELSE {4}

\* every state of the document
Doms == {d \in [Elems -> 1..Len(Markups)] : \A e \in Elems : d[e] \in MarkupsOf(e)}

M(d, e) == Markups[d[e]]

\* element.outerHTML, as character codes: the start tag and own text, the
\* children's markup in document order, the end tag
RECURSIVE OuterHTML(_, _)
RECURSIVE ChildrenHTML(_, _, _)
ChildrenHTML(d, cs, i) ==
    IF i > Len(cs) THEN <<>>
    ELSE OuterHTML(d, cs[i]) \o ChildrenHTML(d, cs, i + 1)

OuterHTML(d, e) ==
    M(d, e).open \o ChildrenHTML(d, SortedSeq(Children(e)), 1) \o M(d, e).close

\* element.textContent is non-empty (own text or a descendant's)
HasText(d, e) ==
    M(d, e).text # "" \/ \E c \in Elems : IsUnder(c, e) /\ M(d, c).text # ""

(***************************************************************************)
(* A11yEngine._getCacheKey: the fingerprint of an element.                  *)
(***************************************************************************)
\* One step of the hash, hash = ((hash << 5) - hash + char) & 0xffffffff,
\* that is hash * 31 + char modulo 2^32, on the two 16-bit halves <<hi, lo>>
\* of the 32-bit word
HashStep(h, char) ==
    LET lo == h[2] * 31 + char
        hi == h[1] * 31 + (lo \div 65536)
    IN <<hi % 65536, lo % 65536>>

\* the loop `for (i = 0; i < str.length; i++)` from position i, continuing
\* from hash h (next is a 32-bit word: the test of its upper half only has
\* the step's value computed before the next step is taken)
RECURSIVE HashFrom(_, _, _)
HashFrom(h, codes, i) ==
    IF i > Len(codes) THEN h
    ELSE LET next == HashStep(h, codes[i])
         IN IF next[1] < 65536 THEN HashFrom(next, codes, i + 1) ELSE next

\* the 32-bit word read as the signed integer JavaScript's bit operators give
ToInt32(h) ==
    IF h[1] >= 32768 THEN (h[1] - 65536) * 65536 + h[2]
    ELSE h[1] * 65536 + h[2]

Hash(codes) == ToInt32(HashFrom(<<0, 0>>, codes, 1))

\* `${tagName}-${id}-${className}-${hash}`; the four parts are kept as a
\* tuple (no id or class of the document holds a "-", so the joined string
\* and the tuple distinguish the same elements)
GetCacheKey(d, e) ==
    <<M(d, e).tag, M(d, e).id, M(d, e).cls, Hash(OuterHTML(d, e))>>

\* the fingerprint of every element in every state of the document
CacheKeyTable == {<<d, e, GetCacheKey(d, e)>> : d \in Doms, e \in Elems}

CacheKey(d, e) == (CHOOSE t \in CacheKeyTable : t[1] = d /\ t[2] = e)[3]

(***************************************************************************)
(* RuleEngine (src/unnamed/part_002): the catalog and rule execution.       *)
(***************************************************************************)
\* the ids of the built-in rules, in the order _initializeRules stores them
\* (the iteration order of the rules Map)
RuleIds ==
    << "missing-alt-text", "missing-form-labels", "insufficient-color-contrast",
       "missing-heading-structure", "missing-focus-indicators",
       "invalid-aria-attributes", "empty-links", "empty-buttons",
       "table-missing-headers", "missing-lang-attribute" >>

Range(s) == {s[i] : i \in DOMAIN s}

CatalogIds == Range(RuleIds)

\* severity, category, the leading number of the WCAG reference, and the
\* rank of the rule's name in alphabetical (localeCompare) order
Rules ==
    [r \in CatalogIds |->
        CASE r = "missing-alt-text" ->
               [severity |-> "error", category |-> "multimedia", wcag |-> 1, nameRank |-> 4]
          [] r = "missing-form-labels" ->
               [severity |-> "error", category |-> "forms", wcag |-> 1, nameRank |-> 3]
          [] r = "insufficient-color-contrast" ->
               [severity |-> "warning", category |-> "color_contrast", wcag |-> 1, nameRank |-> 6]
          [] r = "missing-heading-structure" ->
               [severity |-> "warning", category |-> "structural", wcag |-> 1, nameRank |-> 5]
          [] r = "missing-focus-indicators" ->
               [severity |-> "error", category |-> "keyboard", wcag |-> 2, nameRank |-> 8]
          [] r = "invalid-aria-attributes" ->
               [severity |-> "error", category |-> "aria", wcag |-> 4, nameRank |-> 7]
          [] r = "empty-links" ->
               [severity |-> "error", category |-> "semantic", wcag |-> 2, nameRank |-> 2]
          [] r = "empty-buttons" ->
               [severity |-> "error", category |-> "semantic", wcag |-> 4, nameRank |-> 1]
          [] r = "table-missing-headers" ->
               [severity |-> "warning", category |-> "structural", wcag |-> 1, nameRank |-> 10]
          [] OTHER ->
               [severity |-> "error", category |-> "semantic", wcag |-> 3, nameRank |-> 9]]

\* element.matches(rule.selector), for the tags of the document
\* (DIV, BUTTON, IMG)
SelectorMatches(r, d, e) ==
    CASE r = "missing-alt-text" -> M(d, e).tag = "IMG"
      [] r = "insufficient-color-contrast" -> TRUE
      [] r = "invalid-aria-attributes" -> TRUE
      [] r = "missing-focus-indicators" -> M(d, e).tag = "BUTTON"
      [] r = "empty-buttons" -> M(d, e).tag = "BUTTON"
      [] OTHER -> FALSE

\* _hasAccessibleText: own or descendant text, or a descendant img[alt] with
\* a non-blank alt (no element of the document has aria-label or title)
HasAccessibleText(d, e) ==
    \/ HasText(d, e)
    \/ \E c \in Elems :
          IsUnder(c, e) /\ M(d, c).tag = "IMG" /\ M(d, c).hasAlt /\ M(d, c).altText # ""

\* rule.test(element): TRUE when the element passes
RuleTest(r, d, e) ==
    CASE r = "missing-alt-text" -> M(d, e).hasAlt
      \* default colours of the document: the contrast is sufficient
      [] r = "insufficient-color-contrast" -> TRUE
      \* _hasFocusIndicator ends in hasColor, and a computed colour is never
      \* the keyword "inherit"
      [] r = "missing-focus-indicators" -> TRUE
      [] r = "invalid-aria-attributes" -> ~M(d, e).badAria
      [] r = "empty-buttons" -> HasAccessibleText(d, e)
      [] OTHER -> TRUE

\* _isInteractiveElement: a, button, input, select, textarea (no element of
\* the document has tabindex or a click handler)
IsInteractiveElement(d, e) == M(d, e).tag = "BUTTON"

\* _isElementVisible: every element of the document is rendered
IsElementVisible(d, e) == TRUE

\* _isInMainContent: inside main, or outside every header/footer/nav/aside;
\* the document has none of these landmarks
IsInMainContent(d, e) == TRUE

Min(a, b) == IF a <= b THEN a ELSE b

\* _calculateImpact, in hundredths: 1.0 x severity x 2.0 x 1.5 x 1.3, capped
ImpactOf(severity, visible, interactive, mainContent) ==
    LET sev == CASE severity = "error" -> 300
                 [] severity = "warning" -> 200
                 [] OTHER -> 100
        vis == IF visible THEN sev * 2 ELSE sev
        int == IF interactive THEN (vis * 3) \div 2 ELSE vis
        mn  == IF mainContent THEN (int * 13) \div 10 ELSE int
    IN Min(mn, 1000)

CalculateImpact(d, e, r) ==
    ImpactOf(Rules[r].severity, IsElementVisible(d, e),
             IsInteractiveElement(d, e), IsInMainContent(d, e))

\* What _calculateImpact reads of an element of any page: its computed
\* style and offsetParent, its tag, tabindex and click handler, and whether
\* closest() finds a main landmark (main, role=main) and a header, footer,
\* nav or aside landmark (or their roles) among the element and its
\* ancestors.
Contexts ==
    [severity : {"error", "warning", "info"},
     display : {"block", "none"}, visibility : {"visible", "hidden"},
     opacity : {"1", "0"}, offsetParent : BOOLEAN,
     tagName : {"A", "BUTTON", "DIV"},
     hasTabindex : BOOLEAN, tabIndex : {-1, 0}, onclick : BOOLEAN,
     inMain : BOOLEAN, inNonMain : BOOLEAN]

NoContext ==
    [severity |-> "info", display |-> "block", visibility |-> "visible",
     opacity |-> "1", offsetParent |-> TRUE, tagName |-> "DIV",
     hasTabindex |-> FALSE, tabIndex |-> 0, onclick |-> FALSE,
     inMain |-> FALSE, inNonMain |-> FALSE]

\* String.prototype.toLowerCase, for the tag names of Contexts
TagToLowerCase(s) ==
    CASE s = "A" -> "a" [] s = "BUTTON" -> "button" [] OTHER -> "div"

\* _isElementVisible
IsElementVisibleIn(ctx) ==
    /\ ctx.display # "none"
    /\ ctx.visibility # "hidden"
    /\ ctx.opacity # "0"
    /\ ctx.offsetParent

\* _isInteractiveElement
IsInteractiveElementIn(ctx) ==
    \/ TagToLowerCase(ctx.tagName) \in {"a", "button", "input", "select", "textarea"}
    \/ (ctx.hasTabindex /\ ctx.tabIndex >= 0)
    \/ ctx.onclick

\* an _isInMainContent that asks for a main landmark and for no header,
\* footer, nav or aside landmark
InMainAndInNoOtherLandmark(ctx) == ctx.inMain /\ ~ctx.inNonMain

\* _isInMainContent: inside a main landmark, or else inside no header,
\* footer, nav or aside landmark
IsInMainContentIn(ctx) ==
    IF ctx.inMain THEN TRUE ELSE ~ctx.inNonMain

\* _calculateImpact(element, rule) for an element in context ctx
CalculateImpactIn(ctx) ==
    ImpactOf(ctx.severity, IsElementVisibleIn(ctx),
             IsInteractiveElementIn(ctx), IsInMainContentIn(ctx))

\* what goes wrong in a run of executeRules: invalid holds the rules whose
\* selector element.matches rejects with a SyntaxError, throwing the
\* (element, rule) pairs whose test throws or rejects
NoFaults == [invalid |-> {}, throwing |-> {}]

\* a _getApplicableRules that does not look at the enabled set
EveryMatchingRule(faults, enabled, d, e) ==
    SelectSeq(RuleIds, LAMBDA r : r \notin faults.invalid /\ SelectorMatches(r, d, e))

\* _getApplicableRules: the enabled rules whose selector matches, in catalog
\* order; a rule whose selector is invalid is skipped by the catch block
GetApplicableRulesUnder(faults, enabled, d, e) ==
    SelectSeq(RuleIds, LAMBDA r : /\ r \in enabled
                                  /\ r \notin faults.invalid
                                  /\ SelectorMatches(r, d, e))

GetApplicableRules(enabled, d, e) == GetApplicableRulesUnder(NoFaults, enabled, d, e)

\* String.prototype.toLowerCase, for the strings of the model
ToLowerCase(s) ==
    CASE s = "DIV" -> "div" [] s = "BUTTON" -> "button" [] s = "IMG" -> "img"
      [] s = "JSON" -> "json" [] s = "Csv" -> "csv" [] s = "XML" -> "xml"
      [] OTHER -> s

\* one step of the path of _getElementSelector: the lower-case tag, the
\* class, and the 1-based position among the siblings of the same tag when
\* there are several (0 when the element is the only one)
SelectorStep(d, e) ==
    LET same == {c \in Elems : Parent(c) = Parent(e) /\ M(d, c).tag = M(d, e).tag}
    IN [tag |-> ToLowerCase(M(d, e).tag), cls |-> M(d, e).cls,
        nth |-> IF Cardinality(same) > 1
                THEN Cardinality({c \in same : c <= e}) ELSE 0]

\* the path from the element up to the child of document.body
RECURSIVE SelectorPath(_, _)
SelectorPath(d, e) ==
    IF e \notin Elems THEN <<>>
    ELSE SelectorPath(d, Parent(e)) \o <<SelectorStep(d, e)>>

\* _getElementSelector: "#id" for an element with an id, else the path
GetElementSelector(d, e) ==
    IF M(d, e).id # "" THEN <<[tag |-> "#", cls |-> M(d, e).id, nth |-> 0]>>
    ELSE SelectorPath(d, e)

\* _executeRule, for the failing tests: the raw violation
Violation(d, e, r) ==
    [ruleId |-> r, element |-> e, severity |-> Rules[r].severity,
     category |-> Rules[r].category, selector |-> GetElementSelector(d, e),
     impact |-> CalculateImpact(d, e, r)]

\* an _executeRule that reports a test that throws as a violation
ExecuteRuleFlaggingErrors(faults, d, e, r) ==
    IF <<e, r>> \notin faults.throwing /\ RuleTest(r, d, e)
    THEN <<>> ELSE <<Violation(d, e, r)>>

\* _executeRule, as the list of what executeRules pushes for the pair: the
\* violation when the test resolves to a non-passing value, nothing when it
\* passes (null) or throws (the catch block returns null)
ExecuteRule(faults, d, e, r) ==
    IF <<e, r>> \in faults.throwing THEN <<>>
    ELSE IF RuleTest(r, d, e) THEN <<>>
    ELSE <<Violation(d, e, r)>>

\* the inner loop of executeRules: the applicable rules from the i-th on
RECURSIVE ElementViolationsFrom(_, _, _, _, _)
ElementViolationsFrom(faults, d, e, applicable, i) ==
    IF i > Len(applicable) THEN <<>>
    ELSE ExecuteRule(faults, d, e, applicable[i])
         \o ElementViolationsFrom(faults, d, e, applicable, i + 1)

\* executeRules(elements) under the given faults: element by element, rule
\* by rule; what is no element node is skipped
RECURSIVE ExecuteRulesUnder(_, _, _, _, _)
ExecuteRulesUnder(faults, enabled, d, elements, i) ==
    IF i > Len(elements) THEN <<>>
    ELSE (IF elements[i] \in Elems
          THEN ElementViolationsFrom(faults, d, elements[i],
                   GetApplicableRulesUnder(faults, enabled, d, elements[i]), 1)
          ELSE <<>>)
         \o ExecuteRulesUnder(faults, enabled, d, elements, i + 1)

\* the violations of one element, in catalog order
ElementViolations(enabled, d, e) ==
    ElementViolationsFrom(NoFaults, d, e, GetApplicableRules(enabled, d, e), 1)

\* executeRules(elements) when no selector is invalid and no test throws
ExecuteRules(enabled, d, elements, i) ==
    ExecuteRulesUnder(NoFaults, enabled, d, elements, i)

\* the (element, rule) pairs whose test executeRules runs
RuleRuns(enabled, d, elements) ==
    {<<elements[i], r>> : i \in DOMAIN elements, r \in enabled} \cap
    {p \in Elems \X CatalogIds : SelectorMatches(p[2], d, p[1])}

\* an updateEnabledRules that enables every id it is given
EnableEvery(ruleIds) == Range(ruleIds)

\* ruleIds.forEach(id => { if (this.rules.has(id)) this.enabledRules.add(id) })
\* from the i-th id on
RECURSIVE EnableFrom(_, _, _)
EnableFrom(enabled, ruleIds, i) ==
    IF i > Len(ruleIds) THEN enabled
    ELSE EnableFrom(IF ruleIds[i] \in CatalogIds
                    THEN enabled \cup {ruleIds[i]} ELSE enabled,
                    ruleIds, i + 1)

\* updateEnabledRules(ruleIds): the set is cleared, then the ids of the list
\* that the catalog knows are added
UpdateEnabledRules(ruleIds) == EnableFrom({}, ruleIds, 1)

\* getEnabledRules: the rule the catalog holds for every enabled id (a rule
\* stands for itself by its id), undefined for an id it does not hold
GetEnabledRules(enabled) ==
    [id \in enabled |-> IF id \in CatalogIds THEN id ELSE "undefined"]

\* the levels of <h1> to <h6>
HeadingLevels == 1..6

\* _validateHeadingLevel for the i-th heading of a document whose headings
\* have, in document order, the given levels.  The filter keeps a heading h
\* when h.compareDocumentPosition(element) has DOCUMENT_POSITION_PRECEDING
\* set, which is when element precedes h: the headings after the i-th.
ValidateHeadingLevel(levels, i) ==
    LET previousHeadings == SubSeq(levels, i + 1, Len(levels))
    IN IF Len(previousHeadings) = 0 THEN levels[i] = 1
       ELSE levels[i] <= previousHeadings[Len(previousHeadings)] + 1

(***************************************************************************)
(* Reporter (src/src/core/reporter.js).                                     *)
(***************************************************************************)
\* element.textContent: the texts of the element and its descendants, in
\* document order
RECURSIVE TextOf(_, _, _)
TextOf(d, es, i) ==
    IF i > Len(es) THEN "" ELSE M(d, es[i]).text \o TextOf(d, es, i + 1)

TextContent(d, e) == TextOf(d, <<e>> \o QuerySelectorAll(e), 1)

\* _getElementKey: tag, id, class and text joined by "-" (the texts of the
\* document are shorter than 50 characters and hold no white space, so
\* substring(0, 50) and the replacement of white space leave them as they
\* are)
GetElementKey(d, e) ==
    M(d, e).tag \o "-" \o M(d, e).id \o "-" \o M(d, e).cls \o "-" \o TextContent(d, e)

\* a _deduplicateResults that filters nothing
KeepAll(d, results) == results

\* _deduplicateResults: the filter keeps a result when the string
\* ruleId-elementKey has not been seen before
DeduplicateResults(d, results) ==
    LET key(x) == x.ruleId \o "-" \o GetElementKey(d, x.element)
        keep == {i \in DOMAIN results :
                    \A j \in 1..(i - 1) : key(results[j]) # key(results[i])}
    IN [k \in 1..Cardinality(keep) |-> results[SortedSeq(keep)[k]]]

SeverityOrder(s) ==
    CASE s = "error" -> 3 [] s = "warning" -> 2 [] OTHER -> 1

\* the comparator of _prioritizeResults: negative when a sorts before b
Compare(a, b) ==
    LET severityDiff == SeverityOrder(b.severity) - SeverityOrder(a.severity)
        impactDiff == b.impact - a.impact
        wcagOrder == Rules[a.ruleId].wcag - Rules[b.ruleId].wcag
    IN IF severityDiff # 0 THEN severityDiff
       ELSE IF impactDiff # 0 THEN impactDiff
       ELSE IF wcagOrder # 0 THEN wcagOrder
       ELSE Rules[a.ruleId].nameRank - Rules[b.ruleId].nameRank

\* x put into the sorted sequence s after every entry that does not sort
\* after it (Array.prototype.sort is stable)
RECURSIVE InsertSorted(_, _)
InsertSorted(s, x) ==
    IF s = <<>> THEN <<x>>
    ELSE IF Compare(x, s[Len(s)]) < 0
         THEN InsertSorted(SubSeq(s, 1, Len(s) - 1), x) \o <<s[Len(s)]>>
         ELSE s \o <<x>>

RECURSIVE PrioritizeUpTo(_, _)
PrioritizeUpTo(results, n) ==
    IF n = 0 THEN <<>>
    ELSE InsertSorted(PrioritizeUpTo(results, n - 1), results[n])

\* a _prioritizeResults that leaves the list in the order given
InputOrder(results) == results

\* _prioritizeResults
PrioritizeResults(results) == PrioritizeUpTo(results, Len(results))

\* processResults: deduplicate, then prioritize
ProcessResults(d, rawResults) == PrioritizeResults(DeduplicateResults(d, rawResults))

\* processResults with incremental merging: the new results are processed
\* together with the ones held before
MergedInto(d, held, rawResults) == ProcessResults(d, held \o rawResults)

\* this.results after processResults(rawResults), line 39: the processed
\* list takes the place of whatever was held
HeldAfter(d, held, rawResults) == ProcessResults(d, rawResults)

\* the summary of a new Reporter, lines 11-18 (lastUpdate, a time stamp, is
\* left out of the model)
NoSummary ==
    [total |-> 0, errors |-> 0, warnings |-> 0, info |-> 0, categories |-> <<>>]

\* _getCategoryCounts over the first n held results:
\* counts[category] = (counts[category] || 0) + 1
RECURSIVE GetCategoryCounts(_, _)
GetCategoryCounts(held, n) ==
    IF n = 0 THEN <<>>
    ELSE LET counts == GetCategoryCounts(held, n - 1)
             c == held[n].category
         IN (c :> (IF c \in DOMAIN counts THEN counts[c] ELSE 0) + 1) @@ counts

\* this.results.filter(r => r.severity === s).length
CountSeverity(held, s) == Len(SelectSeq(held, LAMBDA r : r.severity = s))

\* a summary that is left as the constructor made it
KeptSummary(held) == NoSummary

\* _updateSummary
UpdateSummary(held) ==
    [total |-> Len(held),
     errors |-> CountSeverity(held, "error"),
     warnings |-> CountSeverity(held, "warning"),
     info |-> CountSeverity(held, "info"),
     categories |-> GetCategoryCounts(held, Len(held))]

\* an export that falls back to JSON for a format it does not know
ExportFormatOrDefault(format) ==
    IF ToLowerCase(format) \in {"csv", "html"} THEN ToLowerCase(format) ELSE "json"

\* the branch the switch of exportResults takes on format.toLowerCase()
ExportFormat(format) ==
    IF ToLowerCase(format) \in {"json", "csv", "html"}
    THEN ToLowerCase(format) ELSE "unsupported"

\* an exported entry that keeps its element
ExportEntryWithElement(result) ==
    [fields |-> [f \in DOMAIN result \cup {"elementSelector"} |->
                    IF f = "elementSelector" THEN result.selector ELSE result[f]],
     undefined |-> {}]

\* the object _exportJSON maps a held result to: the fields of the result,
\* element set to undefined, elementSelector set to the selector
ExportEntry(result) ==
    [fields |-> [f \in DOMAIN result \cup {"elementSelector"} |->
                    IF f = "elementSelector" THEN result.selector ELSE result[f]],
     undefined |-> {"element"}]

\* JSON.parse(JSON.stringify(object)): a property whose value is undefined
\* is left out of the text
ParseStringify(object) ==
    [f \in DOMAIN object.fields \ object.undefined |-> object.fields[f]]

\* _exportJSON, as the value its text parses to
ExportJSON(sum, held) ==
    [summary |-> sum,
     results |-> [i \in DOMAIN held |-> ParseStringify(ExportEntry(held[i]))]]

(***************************************************************************)
(* A11yEngine (src/src/core/engine.js): the state of one engine, of its     *)
(* rule engine, Reporter and UIManager, and of the host page.               *)
(***************************************************************************)
VARIABLES
    dom,             \* the host document: the markup of every element
    hostSupport,     \* the host has MutationObserver, IntersectionObserver, ...
    options,         \* this.options: rules, realtime, maxElements
    hasUI,           \* this._uiManager is not null (enableUI at construction)
    observer,        \* this._observer is not null
    connected,       \* number of observers of this engine that are connected
    analysisQueue,   \* this._analysisQueue: batches of element handles
    debounceTimer,   \* this._debounceTimer: "null", "pending", or "fired"
    pendingTimers,   \* the timeouts this engine has set on the host that have
                     \* neither expired nor been cleared
                     \* (the id of a timer that has run is left in the field)
    isAnalyzing,     \* this._isAnalyzing
    cache,           \* this._cache: fingerprint -> raw violation
    isStarted,       \* this._isStarted
    enabledRules,    \* this._ruleEngine.enabledRules
    results,         \* this._reporter.results
    summary,         \* this._reporter.summary
    uiInitialized,   \* this._uiManager.panel exists
    panelVisible,    \* this._uiManager.isPanelVisible
    uiResults,       \* this._uiManager.currentResults
    stats,           \* this._stats
    passes,          \* the calls suspended at an await, each with what it holds
    analysed,        \* history: <<element, fingerprint>> of the elements that a
                     \* completed analyze call has analysed since the last
                     \* stop() or rule-set change
    lastCall,        \* history: the last completed analyze call
    lastOp           \* history: the operation that led to this state

vars ==
    << dom, hostSupport, options, hasUI, observer, connected, analysisQueue,
       debounceTimer, pendingTimers, isAnalyzing, cache, isStarted, enabledRules, results, summary,
       uiInitialized, panelVisible, uiResults, stats, passes, analysed,
       lastCall, lastOp >>

\* the rule lists given as the rules option; "no-such-rule" is in no catalog
RuleLists == { <<"missing-alt-text">>, <<"empty-buttons", "no-such-rule">> }

NoCall == [set |-> FALSE, pairs |-> {}, enabled |-> {}, value |-> <<>>, dom |-> <<>>]

NoOp ==
    [name |-> "init", kind |-> "none", wasStarted |-> FALSE,
     observerBefore |-> FALSE, connectedBefore |-> 0,
     outcome |-> "none", value |-> <<>>, events |-> <<>>,
     input |-> [kind |-> "null", items |-> <<>>], valid |-> <<>>,
     calls |-> 0, drained |-> <<>>, redundant |-> {}, ruleRuns |-> {},
     completed |-> FALSE, fault |-> "none", prev |-> NoCall,
     pairs |-> {}, enabledAtCall |-> {}, enabledBefore |-> {},
     domAtCall |-> <<>>, rulesGiven |-> FALSE, rules |-> <<>>,
     raw |-> <<>>, dropped |-> FALSE, format |-> "", exported |-> <<>>,
     faults |-> NoFaults, levels |-> <<>>, failing |-> {},
     stopped |-> FALSE, wrote |-> {}, analyzingBefore |-> FALSE,
     ctx |-> NoContext, impact |-> 0]

NoStats ==
    [analysisCount |-> 0, totalAnalysisTime |-> 0, violationsFound |-> 0,
     elementsProcessed |-> 0]

\* the constructor: the options merged over the defaults, every rule of the
\* catalog enabled by RuleEngine._initializeRules, nothing observed or queued
InitWith(doms, supports, ruleLists, caps, realtimes, uis) ==
    /\ dom \in doms
    /\ hostSupport \in supports
    /\ options \in [rules : ruleLists, realtime : realtimes, maxElements : caps]
    /\ hasUI \in uis
    /\ observer = FALSE
    /\ connected = 0
    /\ analysisQueue = <<>>
    /\ debounceTimer = "null"
    /\ pendingTimers = 0
    /\ isAnalyzing = FALSE
    /\ cache = <<>>
    /\ isStarted = FALSE
    /\ enabledRules = CatalogIds
    /\ results = <<>>
    /\ summary = NoSummary
    /\ uiInitialized = FALSE
    /\ panelVisible = TRUE
    /\ uiResults = <<>>
    /\ stats = NoStats
    /\ passes = <<>>
    /\ analysed = {}
    /\ lastCall = NoCall
    /\ lastOp = NoOp

(***************************************************************************)
(* analyze(elements), lines 150-212.                                        *)
(***************************************************************************)
\* Array.from(elements || []): the items of a NodeList, HTMLCollection or
\* array; an Element is neither iterable nor array-like and gives []
ArrayFrom(input) ==
    IF input.kind = "list" THEN input.items ELSE <<>>

\* validElements: the element nodes of the array
ValidElements(input) ==
    SelectSeq(ArrayFrom(input), LAMBDA x : x \in Elems)

\* uncachedElements: the elements whose fingerprint is not in the cache
Uncached(c, d, valid) ==
    SelectSeq(valid, LAMBDA e : CacheKey(d, e) \notin DOMAIN c)

\* cachedResults: the cache entry of every element whose fingerprint is
CachedResults(c, d, valid) ==
    LET hits == SelectSeq(valid, LAMBDA e : CacheKey(d, e) \in DOMAIN c)
    IN [i \in 1..Len(hits) |-> c[CacheKey(d, hits[i])]]

\* newResults.forEach(result => cache.set(key(result.element), result))
RECURSIVE CacheWith(_, _, _, _)
CacheWith(c, d, newResults, i) ==
    IF i > Len(newResults) THEN c
    ELSE CacheWith((CacheKey(d, newResults[i].element) :> newResults[i]) @@ c,
                   d, newResults, i + 1)

\* performance.now() - startTime of one analyze call, in ticks of the
\* model's clock: a call takes one tick for every element it processes
AnalysisTime(valid) == Len(valid)

\* an _updateStats that counts from zero at every call
UpdateStatsAfresh(st, elementsProcessed, analysisTime, violationsFound) ==
    [analysisCount |-> 1,
     totalAnalysisTime |-> analysisTime,
     violationsFound |-> violationsFound,
     elementsProcessed |-> elementsProcessed]

\* _updateStats
UpdateStats(st, elementsProcessed, analysisTime, violationsFound) ==
    [analysisCount |-> st.analysisCount + 1,
     totalAnalysisTime |-> st.totalAnalysisTime + analysisTime,
     violationsFound |-> st.violationsFound + violationsFound,
     elementsProcessed |-> st.elementsProcessed + elementsProcessed]

\* a failure that escapes analyze (what the call would do without its catch
\* block)
Propagated == "rejected"

\* what the catch block of analyze makes of a failure: the call resolves
Caught == "resolved"

\* analyze from the results of executeRules on: cache, statistics, Reporter
\* and UIManager.updateResults.  fault is "execute" when executeRules
\* rejects, "report" when processResults throws, "none" otherwise.
\* updateResults stores the results and then reads this.panel, which is
\* null until initialize() has run: that throws into the catch block too.
Finish(c, st, valid, cachedResults, newResults, fault) ==
    LET allResults == cachedResults \o newResults
        c2 == CacheWith(c, dom, newResults, 1)
        st2 == UpdateStats(st, Len(valid), AnalysisTime(valid), Len(allResults))
        processed == ProcessResults(dom, allResults)
        toUI == hasUI /\ processed # <<>>
        uiThrows == toUI /\ ~uiInitialized
    IN IF fault = "execute"
       THEN [cache |-> c, stats |-> st, results |-> results, summary |-> summary,
             uiResults |-> uiResults, panelVisible |-> panelVisible,
             raw |-> <<>>,
             value |-> <<>>, outcome |-> Caught, completed |-> FALSE]
       ELSE IF fault = "report"
       THEN [cache |-> c2, stats |-> st2, results |-> results, summary |-> summary,
             uiResults |-> uiResults, panelVisible |-> panelVisible,
             raw |-> allResults,
             value |-> <<>>, outcome |-> Caught, completed |-> FALSE]
       ELSE [cache |-> c2, stats |-> st2, results |-> processed,
             raw |-> allResults,
             summary |-> UpdateSummary(processed),
             uiResults |-> IF toUI THEN processed ELSE uiResults,
             panelVisible |-> IF toUI /\ uiInitialized THEN TRUE ELSE panelVisible,
             value |-> IF uiThrows THEN <<>> ELSE processed,
             outcome |-> IF uiThrows THEN Caught ELSE "resolved",
             completed |-> ~uiThrows]

\* number of calls suspended in executeRules
ExecCount == Cardinality({i \in DOMAIN passes : passes[i].phase = "exec"})

\* the model follows the engine through MaxAnalyses analysis passes, at most
\* MaxInFlight of them suspended at once
WithinBudget ==
    /\ Len(passes) < MaxInFlight
    /\ stats.analysisCount + ExecCount < MaxAnalyses

\* A call of analyze(input) by `kind` ("analyze": a direct call; "start",
\* "config": _performInitialAnalysis; "flush": _processBatch), up to its
\* first await.  c, en and an are the cache, the enabled rules and the
\* analysed history at the call.  It sets cache, stats, results, uiResults,
\* panelVisible, passes, analysed, lastCall and lastOp.
CallAnalyze(kind, input, c, en, an, ps, op) ==
    LET valid == ValidElements(input)
        uncached == Uncached(c, dom, valid)
        cachedResults == CachedResults(c, dom, valid)
        newResults == ExecuteRules(en, dom, uncached, 1)
        pairs == {<<valid[i], CacheKey(dom, valid[i])>> : i \in DOMAIN valid}
        runs == RuleRuns(en, dom, uncached)
        redundant == {p \in runs : <<p[1], CacheKey(dom, p[1])>> \in an}
        op1 == [op EXCEPT !.kind = kind, !.input = input, !.valid = valid,
                          !.calls = 1, !.ruleRuns = runs,
                          !.redundant = redundant, !.pairs = pairs,
                          !.enabledAtCall = en, !.prev = lastCall,
                          !.domAtCall = dom]
        f == Finish(c, stats, valid, cachedResults, <<>>, "none")
        pass == [kind |-> kind, phase |-> "exec", valid |-> valid,
                 cached |-> cachedResults, newResults |-> newResults,
                 pairs |-> pairs, live |-> TRUE, stopped |-> FALSE,
                 enabled |-> en,
                 dom |-> dom, value |-> <<>>]
    IN IF valid = <<>>
       THEN \* return []
            /\ cache' = c
            /\ analysed' = an
            /\ passes' = ps
            /\ UNCHANGED <<stats, results, summary, uiResults, panelVisible, lastCall>>
            /\ lastOp' = [op1 EXCEPT !.outcome = "resolved"]
       ELSE IF uncached = <<>>
       THEN \* every element is a cache hit: the call runs to its end
            /\ cache' = f.cache
            /\ stats' = f.stats
            /\ results' = f.results
            /\ summary' = f.summary
            /\ uiResults' = f.uiResults
            /\ panelVisible' = f.panelVisible
            /\ analysed' = an \cup pairs
            /\ lastCall' = [set |-> TRUE, pairs |-> pairs, enabled |-> en,
                            value |-> f.value, dom |-> dom]
            /\ passes' = IF kind = "analyze" THEN ps
                         ELSE Append(ps, [pass EXCEPT !.phase = "tail",
                                                      !.value = f.value])
            /\ lastOp' = [op1 EXCEPT !.outcome = IF kind = "analyze"
                                                 THEN f.outcome ELSE "suspended",
                                     !.value = f.value,
                                     !.raw = f.raw,
                                     !.completed = f.completed]
       ELSE \* await this._ruleEngine.executeRules(uncachedElements)
            /\ cache' = c
            /\ analysed' = an
            /\ passes' = Append(ps, pass)
            /\ UNCHANGED <<stats, results, summary, uiResults, panelVisible, lastCall>>
            /\ lastOp' = [op1 EXCEPT !.outcome = "suspended"]

\* the passes in flight, no longer counted as analysed under the current
\* rule set (history only)
Stale(ps) == [i \in DOMAIN ps |-> [ps[i] EXCEPT !.live = FALSE]]

(***************************************************************************)
(* The operations of the engine.                                            *)
(***************************************************************************)
Op(name) == [NoOp EXCEPT !.name = name, !.wasStarted = isStarted,
                         !.observerBefore = observer,
                         !.connectedBefore = connected,
                         !.enabledBefore = enabledRules,
                         !.analyzingBefore = isAnalyzing]

\* a notification of _emitEvent; running is what getStats().isRunning gives
\* a listener at the moment of the dispatch
Event(name) ==
    [name |-> name, rulesEnabled |-> 0, stats |-> NoStats, running |-> isStarted]

\* array.slice(0, n)
Slice(s, n) == SubSeq(s, 1, Min(n, Len(s)))

\* _performInitialAnalysis: the descendants of the target, capped
InitialElements(cap) == Slice(QuerySelectorAll(1), cap)

\* start() without override options
NoOverride == [given |-> FALSE, rules |-> <<>>]

\* what start(overrideOptions) may override: nothing, or the rules option
Overrides == {NoOverride} \cup {[given |-> TRUE, rules |-> l] : l \in RuleLists}

\* a start() that tests the host only after _setupMutationObserver has run
StartFailureAfterSetup == [observer |-> TRUE, connected |-> connected + 1]

\* start() when _checkBrowserSupport() fails: the error is thrown before
\* _setupMutationObserver, so the observer fields are as they were
StartFailure == [observer |-> observer, connected |-> connected]

\* a _setupMutationObserver that does not look at the realtime option
SetupAlways(realtime) == [observer |-> TRUE, connected |-> connected + 1]

\* _setupMutationObserver, lines 286-319: nothing when realtime is off, else
\* a new observer in this._observer, observing the target
SetupMutationObserver(realtime) ==
    [observer |-> (observer \/ realtime),
     connected |-> IF realtime THEN connected + 1 ELSE connected]

\* start(overrideOptions), lines 53-101, up to the await of the initial
\* analysis (UIManager.initialize has run by then)
Start(ov) ==
    IF isStarted
    THEN \* already started: reopen the panel, or warn
         /\ panelVisible' = (panelVisible \/ hasUI)
         /\ lastOp' = [Op("start") EXCEPT !.outcome = "resolved"]
         /\ UNCHANGED <<dom, hostSupport, options, hasUI, observer, connected,
                        analysisQueue, debounceTimer, pendingTimers, isAnalyzing, cache,
                        isStarted, enabledRules, results, summary, uiInitialized,
                        uiResults, stats, passes, analysed, lastCall>>
    ELSE /\ options' = IF ov.given THEN [options EXCEPT !.rules = ov.rules]
                       ELSE options
         /\ IF ~hostSupport
            THEN \* throw new Error("Browser does not support required APIs")
                 /\ observer' = StartFailure.observer
                 /\ connected' = StartFailure.connected
                 /\ lastOp' = [Op("start") EXCEPT !.outcome = "rejected"]
                 /\ UNCHANGED <<dom, hostSupport, hasUI, analysisQueue,
                                debounceTimer, pendingTimers, isAnalyzing, cache, isStarted,
                                enabledRules, results, summary, uiInitialized,
                                panelVisible, uiResults, stats, passes,
                                analysed, lastCall>>
            ELSE /\ WithinBudget
                 \* _setupMutationObserver
                 /\ observer' = SetupMutationObserver(options'.realtime).observer
                 /\ connected' = SetupMutationObserver(options'.realtime).connected
                 \* await this._uiManager.initialize()
                 /\ uiInitialized' = (uiInitialized \/ hasUI)
                 \* _performInitialAnalysis, to the await in analyze
                 /\ CallAnalyze("start",
                                [kind |-> "list",
                                 items |-> InitialElements(options'.maxElements)],
                                cache, enabledRules, analysed, passes,
                                Op("start"))
                 /\ UNCHANGED <<dom, hostSupport, hasUI, analysisQueue,
                                debounceTimer, pendingTimers, isAnalyzing, isStarted,
                                enabledRules>>

\* a timer that is left to expire where the code clears it
LeaveTimeout(timer, pending) == pending

\* if (this._debounceTimer) clearTimeout(this._debounceTimer): the timeouts
\* left pending on the host (clearing a timeout that has expired does
\* nothing)
ClearTimeout(timer, pending) ==
    IF timer = "pending" THEN pending - 1 ELSE pending

\* a handler that arms a timer only when it holds none (leading edge)
SetTimeoutOnce(timer) == IF timer = "null" THEN "pending" ELSE timer

\* this._debounceTimer = setTimeout(this._processBatch, debounceMs): the
\* handle of a new timeout, whatever handle was held
SetTimeout(timer) == "pending"

\* a stop() that disconnects and marks the engine stopped but leaves the
\* timer, the queue and the cache as they are
StopWithoutClear ==
    [observer |-> FALSE,
     connected |-> IF observer THEN connected - 1 ELSE connected,
     debounceTimer |-> debounceTimer,
     pendingTimers |-> pendingTimers,
     analysisQueue |-> analysisQueue,
     cache |-> cache,
     isStarted |-> FALSE]

\* the fields stop() resets, lines 112-134
StopState ==
    [observer |-> FALSE,
     connected |-> IF observer THEN connected - 1 ELSE connected,
     debounceTimer |-> "null",
     pendingTimers |-> ClearTimeout(debounceTimer, pendingTimers),
     analysisQueue |-> <<>>,
     cache |-> <<>>,
     isStarted |-> FALSE]

\* the notifications stop() emits, line 137
StopEvents ==
    << [Event("stopped") EXCEPT !.stats = stats,
                                !.running = StopState.isStarted] >>

\* the passes that were suspended when stop() ran (history only)
StoppedPasses(ps) ==
    [i \in DOMAIN ps |-> [ps[i] EXCEPT !.live = FALSE, !.stopped = TRUE]]

\* stop() of a running engine, lines 112-139
StopRunning ==
    /\ observer' = StopState.observer
    /\ connected' = StopState.connected
    /\ debounceTimer' = StopState.debounceTimer
    /\ pendingTimers' = StopState.pendingTimers
    /\ analysisQueue' = StopState.analysisQueue
    \* this._uiManager._closePanel() (the panel exists: the engine runs
    \* only after start() has initialized the UIManager)
    /\ panelVisible' = (panelVisible /\ ~hasUI)
    /\ cache' = StopState.cache
    /\ isStarted' = StopState.isStarted
    /\ analysed' = {}
    /\ passes' = StoppedPasses(passes)
    /\ lastOp' = [Op("stop") EXCEPT !.outcome = "returned",
                                    !.events = StopEvents]
    /\ UNCHANGED <<dom, hostSupport, options, hasUI, isAnalyzing,
                   enabledRules, results, summary, uiInitialized, uiResults,
                   stats, lastCall>>

\* a stop() without the test of line 107
StopUnguarded == StopRunning

\* stop(), lines 106-143
Stop ==
    IF ~isStarted
    THEN \* console.warn("A11y Live is not currently running")
         /\ lastOp' = [Op("stop") EXCEPT !.outcome = "returned"]
         /\ UNCHANGED <<dom, hostSupport, options, hasUI, observer, connected,
                        analysisQueue, debounceTimer, pendingTimers, isAnalyzing, cache,
                        isStarted, enabledRules, results, summary,
                        uiInitialized, panelVisible, uiResults, stats, passes,
                        analysed, lastCall>>
    ELSE StopRunning

\* the inputs of a direct analyze call: nothing, one element, or a list
\* that may hold nodes that are no elements and the same element twice
AnalyzeInputs ==
    {[kind |-> "null", items |-> <<>>]} \cup
    {[kind |-> "element", items |-> <<e>>] : e \in {1, 2}} \cup
    {[kind |-> "list", items |-> l] :
        l \in { <<>>, <<NotAnElement>>, <<3>>, <<2, 3>>, <<3, NotAnElement, 3>>,
                <<1, 2>> }}

\* a direct call of analyze(input)
Analyze(input) ==
    /\ WithinBudget
    /\ CallAnalyze("analyze", input, cache, enabledRules, analysed, passes,
                   Op("analyze"))
    /\ UNCHANGED <<dom, hostSupport, options, hasUI, observer, connected,
                   analysisQueue, debounceTimer, pendingTimers, isAnalyzing, isStarted,
                   enabledRules, uiInitialized>>

\* the configurations given to updateConfig: without rules, or with a list
Configs ==
    {[rulesGiven |-> FALSE, rules |-> <<>>]} \cup
    {[rulesGiven |-> TRUE, rules |-> l] : l \in RuleLists \cup {<<>>}}

\* the test of lines 224-227: a rules list is given (an array is truthy
\* even when empty) and its JSON text differs from that of the old option
RulesChanged(cfg, oldRules) == cfg.rulesGiven /\ cfg.rules # oldRules

\* updateConfig(newConfig), lines 218-250
UpdateConfig(cfg) ==
    /\ options' = IF cfg.rulesGiven THEN [options EXCEPT !.rules = cfg.rules]
                  ELSE options
    /\ IF RulesChanged(cfg, options.rules)
       THEN /\ enabledRules' = UpdateEnabledRules(cfg.rules)
            /\ IF isStarted
               THEN \* this._performInitialAnalysis(), not awaited
                    /\ WithinBudget
                    /\ CallAnalyze("config",
                                   [kind |-> "list",
                                    items |-> InitialElements(options'.maxElements)],
                                   <<>>, enabledRules', {}, Stale(passes),
                                   [Op("updateConfig") EXCEPT
                                       !.rulesGiven = cfg.rulesGiven,
                                       !.rules = cfg.rules,
                                       !.events = <<Event("configUpdated")>>])
               ELSE /\ cache' = <<>>
                    /\ analysed' = {}
                    /\ passes' = Stale(passes)
                    /\ lastOp' = [Op("updateConfig") EXCEPT
                                     !.outcome = "returned",
                                     !.rulesGiven = cfg.rulesGiven,
                                     !.rules = cfg.rules,
                                     !.events = <<Event("configUpdated")>>]
                    /\ UNCHANGED <<stats, results, summary, uiResults, panelVisible,
                                   lastCall>>
       ELSE /\ lastOp' = [Op("updateConfig") EXCEPT
                             !.outcome = "returned",
                             !.rulesGiven = cfg.rulesGiven,
                             !.rules = cfg.rules,
                             !.events = <<Event("configUpdated")>>]
            /\ UNCHANGED <<enabledRules, cache, analysed, passes, stats,
                           results, summary, uiResults, panelVisible, lastCall>>
    /\ UNCHANGED <<dom, hostSupport, hasUI, observer, connected,
                   analysisQueue, debounceTimer, pendingTimers, isAnalyzing, isStarted,
                   uiInitialized>>

\* s without its repeated entries, the first occurrence of each kept (the
\* iteration order of a Set)
RECURSIVE Dedup(_)
Dedup(s) ==
    IF s = <<>> THEN <<>>
    ELSE LET front == Dedup(SubSeq(s, 1, Len(s) - 1))
         IN IF s[Len(s)] \in Range(front) THEN front
            ELSE Append(front, s[Len(s)])

\* the mutation records of one notification: a target, and the nodes added
\* under it
MutationRecords ==
    {[target |-> t, addedNodes |-> a] :
        t \in {1} \cup Range(QuerySelectorAll(1)),
        a \in {<<>>} \cup {<<c>> : c \in Elems \ {1}}}

Notifications == {<<m>> : m \in {r \in MutationRecords :
                     \A i \in DOMAIN r.addedNodes : Parent(r.addedNodes[i]) = r.target}}

\* the elements one record adds to affectedElements: the target, then every
\* added node with its descendants
RECURSIVE AddedWithChildren(_, _)
AddedWithChildren(nodes, i) ==
    IF i > Len(nodes) THEN <<>>
    ELSE (IF nodes[i] \in Elems
          THEN <<nodes[i]>> \o QuerySelectorAll(nodes[i]) ELSE <<>>)
         \o AddedWithChildren(nodes, i + 1)

RECURSIVE AffectedFrom(_, _)
AffectedFrom(mutations, i) ==
    IF i > Len(mutations) THEN <<>>
    ELSE (IF mutations[i].target \in Elems THEN <<mutations[i].target>> ELSE <<>>)
         \o AddedWithChildren(mutations[i].addedNodes, 1)
         \o AffectedFrom(mutations, i + 1)

\* Array.from(affectedElements)
AffectedElements(mutations) == Dedup(AffectedFrom(mutations, 1))

\* _handleMutations(mutations), lines 325-367, called by a connected
\* observer
HandleMutations(mutations) ==
    /\ connected > 0
    /\ IF ~isStarted \/ isAnalyzing \/ AffectedElements(mutations) = <<>>
       THEN UNCHANGED <<analysisQueue, debounceTimer, pendingTimers>>
       ELSE /\ Len(analysisQueue) < MaxQueue
            /\ analysisQueue' = Append(analysisQueue, AffectedElements(mutations))
            \* clearTimeout, then setTimeout(this._processBatch, debounceMs)
            /\ debounceTimer' = SetTimeout(debounceTimer)
            /\ pendingTimers' = ClearTimeout(debounceTimer, pendingTimers) + 1
    /\ lastOp' = [Op("notify") EXCEPT !.outcome = "returned",
                                      !.valid = AffectedElements(mutations)]
    /\ UNCHANGED <<dom, hostSupport, options, hasUI, observer, connected,
                   isAnalyzing, cache, isStarted, enabledRules, results, summary,
                   uiInitialized, panelVisible, uiResults, stats, passes,
                   analysed, lastCall>>

RECURSIVE Flatten(_, _)
Flatten(batch, i) ==
    IF i > Len(batch) THEN <<>> ELSE batch[i] \o Flatten(batch, i + 1)

\* allElements of _processBatch: the queued elements, flattened and
\* deduplicated
AllElements(batch) == Dedup(Flatten(batch, 1))

\* a flush without the cap: every queued element
AllQueued(batch, maxElements) == AllElements(batch)

\* elementsToAnalyze: Array.from(allElements).slice(0, maxElements)
ElementsToAnalyze(batch, maxElements) == Slice(AllElements(batch), maxElements)

\* the debounce timer expires and runs _processBatch, lines 372-403, up to
\* the await of analyze
ProcessBatch ==
    /\ debounceTimer = "pending"
    /\ debounceTimer' = "fired"
    /\ pendingTimers' = pendingTimers - 1
    /\ IF isAnalyzing \/ analysisQueue = <<>>
       THEN /\ lastOp' = [Op("flush") EXCEPT !.outcome = "returned"]
            /\ UNCHANGED <<analysisQueue, isAnalyzing, cache, stats, results, summary,
                           uiResults, panelVisible, passes, analysed, lastCall>>
       ELSE /\ WithinBudget
            /\ isAnalyzing' = TRUE
            /\ analysisQueue' = <<>>
            /\ CallAnalyze("flush",
                           [kind |-> "list",
                            items |-> ElementsToAnalyze(analysisQueue,
                                                        options.maxElements)],
                           cache, enabledRules, analysed, passes,
                           [Op("flush") EXCEPT !.drained = AllElements(analysisQueue)])
    /\ UNCHANGED <<dom, hostSupport, options, hasUI, observer, connected,
                   isStarted, enabledRules, uiInitialized>>

(***************************************************************************)
(* The self-loading variant of the engine (src/unnamed/part_001): start and *)
(* the flush.  Its _handleMutations (412-454) and _setupMutationObserver    *)
(* (373-405) are those of engine.js, line for line.                         *)
(***************************************************************************)
\* what analyze(document.body) of the variant analyses (lines 196-240): the
\* element and its descendants, each once; the body of the page is the
\* target, element 1
PageElements == Dedup(<<1>> \o QuerySelectorAll(1))

\* start(overrideOptions) of the variant, lines 96-140, without override
\* options, up to the await in _analyzeCurrentPage (511-540), which calls
\* analyze(document.body) when the page has elements
StartSelfLoading ==
    IF isStarted
    THEN /\ panelVisible' = (panelVisible \/ hasUI)
         /\ lastOp' = [Op("start") EXCEPT !.outcome = "resolved"]
         /\ UNCHANGED <<dom, hostSupport, options, hasUI, observer, connected,
                        analysisQueue, debounceTimer, pendingTimers,
                        isAnalyzing, cache, isStarted, enabledRules, results,
                        summary, uiInitialized, uiResults, stats, passes,
                        analysed, lastCall>>
    ELSE IF ~hostSupport
    THEN /\ lastOp' = [Op("start") EXCEPT !.outcome = "rejected"]
         /\ UNCHANGED <<dom, hostSupport, options, hasUI, observer, connected,
                        analysisQueue, debounceTimer, pendingTimers,
                        isAnalyzing, cache, isStarted, enabledRules, results,
                        summary, uiInitialized, panelVisible, uiResults,
                        stats, passes, analysed, lastCall>>
    ELSE /\ WithinBudget
         /\ observer' = SetupMutationObserver(options.realtime).observer
         /\ connected' = SetupMutationObserver(options.realtime).connected
         /\ uiInitialized' = (uiInitialized \/ hasUI)
         /\ CallAnalyze("start",
                        [kind |-> "list",
                         items |-> IF InitialElements(options.maxElements) = <<>>
                                   THEN <<>> ELSE PageElements],
                        cache, enabledRules, analysed, passes, Op("start"))
         /\ UNCHANGED <<dom, hostSupport, options, hasUI, analysisQueue,
                        debounceTimer, pendingTimers, isAnalyzing, isStarted,
                        enabledRules>>

\* now - this._lastAnalysisTime < this._analysisThrottleMs (line 466): no
\* line of the variant defines _analysisThrottleMs, and no number is less
\* than undefined
Throttled == FALSE

\* allElements of the variant's _processBatch (lines 481-484): a new Set,
\* to which the flush adds no element of the batch
AllElementsSelfLoading(batch) == <<>>

\* elementsToAnalyze of the variant (lines 486-490)
ElementsToAnalyzeSelfLoading(batch, maxElements) ==
    Slice(AllElementsSelfLoading(batch), maxElements)

\* the debounce timer expires and runs the variant's _processBatch, lines
\* 459-505, up to the await of analyze if it comes to one
ProcessBatchSelfLoading ==
    LET elementsToAnalyze ==
            ElementsToAnalyzeSelfLoading(analysisQueue, options.maxElements)
        op == [Op("flush") EXCEPT !.drained = AllElements(analysisQueue),
                                  !.input = [kind |-> "list",
                                             items |-> elementsToAnalyze]]
    IN /\ debounceTimer = "pending"
       /\ IF isAnalyzing \/ analysisQueue = <<>>
          THEN /\ debounceTimer' = "fired"
               /\ pendingTimers' = pendingTimers - 1
               /\ lastOp' = [Op("flush") EXCEPT !.outcome = "returned"]
               /\ UNCHANGED <<analysisQueue, isAnalyzing, cache, stats,
                              results, summary, uiResults, panelVisible,
                              passes, analysed, lastCall>>
          ELSE IF Throttled
          THEN \* setTimeout(this._processBatch, this._analysisThrottleMs)
               /\ debounceTimer' = SetTimeout(debounceTimer)
               /\ pendingTimers' = pendingTimers
               /\ lastOp' = [Op("flush") EXCEPT !.outcome = "returned"]
               /\ UNCHANGED <<analysisQueue, isAnalyzing, cache, stats,
                              results, summary, uiResults, panelVisible,
                              passes, analysed, lastCall>>
          ELSE /\ debounceTimer' = "fired"
               /\ pendingTimers' = pendingTimers - 1
               \* this._analysisQueue.splice(0)
               /\ analysisQueue' = <<>>
               /\ IF elementsToAnalyze = <<>>
                  THEN \* no analyze call; finally: _isAnalyzing = false
                       /\ lastOp' = [op EXCEPT !.outcome = "returned"]
                       /\ UNCHANGED <<isAnalyzing, cache, stats, results,
                                      summary, uiResults, panelVisible,
                                      passes, analysed, lastCall>>
                  ELSE /\ WithinBudget
                       /\ isAnalyzing' = TRUE
                       /\ CallAnalyze("flush",
                                      [kind |-> "list", items |-> elementsToAnalyze],
                                      cache, enabledRules, analysed, passes, op)
       /\ UNCHANGED <<dom, hostSupport, options, hasUI, observer, connected,
                      isStarted, enabledRules, uiInitialized>>

\* the page edits element e: its markup, and with it its fingerprint and
\* that of its ancestors, changes
DomChange(e, m) ==
    /\ m \in MarkupsOf(e) \ {dom[e]}
    /\ dom' = [dom EXCEPT ![e] = m]
    /\ lastOp' = [Op("domChange") EXCEPT !.outcome = "returned"]
    /\ UNCHANGED <<hostSupport, options, hasUI, observer, connected,
                   analysisQueue, debounceTimer, pendingTimers, isAnalyzing, cache, isStarted,
                   enabledRules, results, summary, uiInitialized, panelVisible,
                   uiResults, stats, passes, analysed, lastCall>>

\* passes without its i-th entry
Without(ps, i) == SubSeq(ps, 1, i - 1) \o SubSeq(ps, i + 1, Len(ps))

\* a start() that emits its notification before it marks the engine
\* running
StartedBeforeRunning ==
    [Event("started") EXCEPT !.rulesEnabled = Cardinality(enabledRules),
                             !.running = isStarted]

\* the notification start() emits, lines 90-94, after line 87 has set
\* _isStarted
StartedEvent ==
    [Event("started") EXCEPT !.rulesEnabled = Cardinality(enabledRules),
                             !.running = TRUE]

\* The suspended call passes[i] goes on to its end: analyze from the result
\* of executeRules (lines 182-211), then what its caller does with the
\* value: _performInitialAnalysis (lines 417-424) and start (lines 87-96),
\* or the finally block of _processBatch (line 401).
Resume(i, fault) ==
    LET p == passes[i]
        f == IF p.phase = "exec"
             THEN Finish(cache, stats, p.valid, p.cached, p.newResults, fault)
             ELSE [cache |-> cache, stats |-> stats, results |-> results, summary |-> summary,
                   uiResults |-> uiResults, panelVisible |-> panelVisible,
                   raw |-> <<>>,
                   value |-> p.value, outcome |-> "resolved",
                   completed |-> FALSE]
        again == p.kind \in {"start", "config"} /\ hasUI /\ f.value # <<>>
    IN /\ p.phase = "tail" => fault = "none"
       /\ cache' = f.cache
       /\ stats' = f.stats
       /\ results' = f.results
       /\ summary' = f.summary
       \* _performInitialAnalysis hands the results to the UI once more
       /\ uiResults' = IF again THEN f.value ELSE f.uiResults
       /\ panelVisible' = IF again /\ uiInitialized THEN TRUE ELSE f.panelVisible
       /\ isStarted' = IF p.kind = "start" THEN TRUE ELSE isStarted
       /\ isAnalyzing' = IF p.kind = "flush" THEN FALSE ELSE isAnalyzing
       /\ passes' = Without(passes, i)
       /\ analysed' = IF p.phase = "exec" /\ fault = "none" /\ p.live
                      THEN analysed \cup p.pairs ELSE analysed
       /\ lastCall' = IF p.phase = "exec" /\ fault = "none"
                      THEN [set |-> TRUE, pairs |-> p.pairs,
                            enabled |-> p.enabled, value |-> f.value,
                            dom |-> p.dom]
                      ELSE lastCall
       /\ lastOp' = [Op("resume") EXCEPT
                        !.kind = p.kind, !.outcome = f.outcome,
                        !.value = f.value, !.valid = p.valid,
                        !.raw = f.raw,
                        !.completed = (p.phase = "exec" /\ f.completed),
                        !.fault = fault, !.prev = lastCall,
                        !.stopped = p.stopped,
                        !.wrote = {n \in {"cache", "stats", "ui"} :
                                      \/ n = "cache" /\ cache' # cache
                                      \/ n = "stats" /\ stats' # stats
                                      \/ n = "ui" /\ uiResults' # uiResults},
                        !.pairs = p.pairs, !.enabledAtCall = p.enabled,
                        !.domAtCall = p.dom,
                        !.calls = IF p.phase = "exec" THEN 1 ELSE 0,
                        !.events = IF p.kind = "start"
                                   THEN <<StartedEvent>> ELSE <<>>]
       /\ UNCHANGED <<dom, hostSupport, options, hasUI, observer, connected,
                      analysisQueue, debounceTimer, pendingTimers, enabledRules,
                      uiInitialized>>

(***************************************************************************)
(* The operations of the Reporter, called on this._reporter.                *)
(***************************************************************************)
\* raw violations a caller hands to processResults: violations of the img
\* and of the button, as the rules grade them and graded otherwise
RawViolations(d) ==
    { Violation(d, 3, "missing-alt-text"),
      [Violation(d, 3, "missing-alt-text") EXCEPT
          !.severity = "warning", !.impact = 520],
      Violation(d, 2, "empty-buttons"),
      [Violation(d, 2, "empty-buttons") EXCEPT
          !.severity = "info", !.impact = 260],
      [Violation(d, 2, "invalid-aria-attributes") EXCEPT !.impact = 780],
      [Violation(d, 3, "insufficient-color-contrast") EXCEPT
          !.severity = "info", !.impact = 130] }

\* the lists of at most MaxRaw raw violations
RawLists(d) ==
    UNION {[1..n -> RawViolations(d)] : n \in 0..MaxRaw}

\* processResults(rawResults), lines 26-43
ReporterProcessResults(rawResults) ==
    /\ results' = HeldAfter(dom, results, rawResults)
    /\ summary' = UpdateSummary(results')
    /\ lastOp' = [Op("processResults") EXCEPT
                     !.raw = rawResults, !.value = results',
                     !.dropped = \E i \in DOMAIN results :
                                    results[i] \notin Range(rawResults)]
    /\ UNCHANGED <<dom, hostSupport, options, hasUI, observer, connected,
                   analysisQueue, debounceTimer, pendingTimers, isAnalyzing, cache,
                   isStarted, enabledRules, uiInitialized, panelVisible,
                   uiResults, stats, passes, analysed, lastCall>>

\* clearResults(), lines 780-783
ClearResults ==
    /\ results' = <<>>
    /\ summary' = UpdateSummary(results')
    /\ lastOp' = Op("clearResults")
    /\ UNCHANGED <<dom, hostSupport, options, hasUI, observer, connected,
                   analysisQueue, debounceTimer, pendingTimers, isAnalyzing, cache,
                   isStarted, enabledRules, uiInitialized, panelVisible,
                   uiResults, stats, passes, analysed, lastCall>>

\* the formats a caller asks exportResults for
Formats == {"json", "csv", "html", "JSON", "Csv", "XML", "pdf", ""}

\* exportResults(format), lines 597-608: the switch returns the export or
\* throws; the CSV and HTML texts are left out of the model
ExportResults(format) ==
    LET branch == ExportFormat(format)
    IN /\ lastOp' = [Op("exportResults") EXCEPT
                        !.format = format,
                        !.outcome = IF branch = "unsupported"
                                    THEN "threw" ELSE "returned",
                        !.kind = branch,
                        !.exported = IF branch = "json"
                                     THEN ExportJSON(summary, results)
                                     ELSE <<>>]
       /\ UNCHANGED <<dom, hostSupport, options, hasUI, observer, connected,
                      analysisQueue, debounceTimer, pendingTimers, isAnalyzing, cache,
                      isStarted, enabledRules, results, summary,
                      uiInitialized, panelVisible, uiResults, stats, passes,
                      analysed, lastCall>>

(***************************************************************************)
(* The operations of the RuleEngine, called on this._ruleEngine.            *)
(***************************************************************************)
\* the lists handed to executeRules: element handles and other values
ExecuteInputs ==
    UNION {[1..n -> Elems \cup {NotAnElement}] : n \in 0..MaxBatch}

\* the faults of a run: the host rejects the selector of the ARIA rule, the
\* test of the alt-text rule throws on the img, the test of the button rule
\* on the button
FaultSets ==
    [invalid : SUBSET {"invalid-aria-attributes"},
     throwing : SUBSET {<<3, "missing-alt-text">>, <<2, "empty-buttons">>}]

\* executeRules(elements), lines 214-239: the promise resolves with the
\* violations; no statement of the loops is outside a try block but the
\* push
ExecuteRulesCall(elements, faults) ==
    /\ lastOp' = [Op("executeRules") EXCEPT
                     !.input = [kind |-> "list", items |-> elements],
                     !.faults = faults,
                     !.outcome = "resolved",
                     !.enabledAtCall = enabledRules,
                     !.value = ExecuteRulesUnder(faults, enabledRules, dom,
                                                 elements, 1)]
    /\ UNCHANGED <<dom, hostSupport, options, hasUI, observer, connected,
                   analysisQueue, debounceTimer, pendingTimers, isAnalyzing, cache,
                   isStarted, enabledRules, results, summary,
                   uiInitialized, panelVisible, uiResults, stats, passes,
                   analysed, lastCall>>

\* the id lists handed to updateEnabledRules
EnableLists ==
    RuleLists \cup
    { <<>>, <<"no-such-rule">>,
      <<"missing-alt-text", "empty-buttons", "invalid-aria-attributes">>,
      <<"empty-buttons", "empty-buttons">> }

\* updateEnabledRules(ruleIds), lines 840-847
UpdateEnabledRulesCall(ruleIds) ==
    /\ enabledRules' = UpdateEnabledRules(ruleIds)
    /\ lastOp' = [Op("updateEnabledRules") EXCEPT
                     !.rules = ruleIds, !.outcome = "returned"]
    /\ UNCHANGED <<dom, hostSupport, options, hasUI, observer, connected,
                   analysisQueue, debounceTimer, pendingTimers, isAnalyzing, cache,
                   isStarted, results, summary, uiInitialized, panelVisible,
                   uiResults, stats, passes, analysed, lastCall>>

\* the headings of a page, in document order, by their levels
HeadingLists ==
    UNION {[1..n -> HeadingLevels] : n \in 1..MaxHeadings}

\* the test of missing-heading-structure (line 99) run on every heading of
\* a page with the given headings: failing holds the positions of the
\* headings that get a violation
CheckHeadings(levels) ==
    /\ lastOp' = [Op("checkHeadings") EXCEPT
                     !.levels = levels,
                     !.failing = {i \in DOMAIN levels :
                                     ~ValidateHeadingLevel(levels, i)}]
    /\ UNCHANGED <<dom, hostSupport, options, hasUI, observer, connected,
                   analysisQueue, debounceTimer, pendingTimers, isAnalyzing, cache,
                   isStarted, enabledRules, results, summary,
                   uiInitialized, panelVisible, uiResults, stats, passes,
                   analysed, lastCall>>

\* _calculateImpact (part_002 706-733) called for a violation of a rule of
\* severity ctx.severity on an element in context ctx
CalculateImpactCall(ctx) ==
    /\ lastOp' = [Op("calculateImpact") EXCEPT
                     !.ctx = ctx,
                     !.impact = CalculateImpactIn(ctx)]
    /\ UNCHANGED <<dom, hostSupport, options, hasUI, observer, connected,
                   analysisQueue, debounceTimer, pendingTimers, isAnalyzing, cache,
                   isStarted, enabledRules, results, summary,
                   uiInitialized, panelVisible, uiResults, stats, passes,
                   analysed, lastCall>>

(***************************************************************************)
(* The running engine: start, stop, mutation notifications and flushes.     *)
(***************************************************************************)
Init ==
    InitWith(Doms, BOOLEAN, {<<>>}, 1..MaxCap, {TRUE}, {TRUE})

Next ==
    \/ Start(NoOverride)
    \/ Stop
    \/ \E n \in Notifications : HandleMutations(n)
    \/ ProcessBatch
    \/ \E i \in DOMAIN passes : Resume(i, "none")

Spec == Init /\ [][Next]_vars

(***************************************************************************)
(* The rules option: construction with a rule list, start with an override, *)
(* updateConfig.                                                            *)
(***************************************************************************)
ConfigInit ==
    InitWith(Doms, {TRUE}, {<<>>} \cup RuleLists, {MaxCap}, {TRUE}, {TRUE})

ConfigNext ==
    \/ \E ov \in Overrides : Start(ov)
    \/ Stop
    \/ \E cfg \in Configs : UpdateConfig(cfg)
    \/ \E i \in DOMAIN passes : Resume(i, "none")

ConfigSpec == ConfigInit /\ [][ConfigNext]_vars

(***************************************************************************)
(* Direct analyze calls on an engine without UI, while the page edits its   *)
(* leaf elements.                                                           *)
(***************************************************************************)
AnalyzeInit ==
    InitWith(Doms, {TRUE}, {<<>>}, {MaxCap}, {TRUE}, {FALSE})

AnalyzeNext ==
    \/ \E input \in AnalyzeInputs : Analyze(input)
    \/ \E e \in {x \in Elems : Children(x) = {}} :
          \E m \in MarkupsOf(e) : DomChange(e, m)
    \/ \E i \in DOMAIN passes : Resume(i, "none")

AnalyzeSpec == AnalyzeInit /\ [][AnalyzeNext]_vars

(***************************************************************************)
(* Direct analyze calls whose rule execution or result processing may       *)
(* throw; with a UIManager that start() has not initialized, updateResults  *)
(* throws as well.                                                          *)
(***************************************************************************)
FaultInit ==
    InitWith(Doms, {TRUE}, {<<>>}, {MaxCap}, {TRUE}, BOOLEAN)

FaultNext ==
    \/ \E input \in AnalyzeInputs : Analyze(input)
    \/ \E i \in DOMAIN passes : Resume(i, "none")
    \/ \E i \in DOMAIN passes : Resume(i, "execute")
    \/ \E i \in DOMAIN passes : Resume(i, "report")

FaultSpec == FaultInit /\ [][FaultNext]_vars

(***************************************************************************)
(* The Reporter on its own: processResults with lists of raw violations,    *)
(* clearResults and exportResults.                                          *)
(***************************************************************************)
ReporterInit ==
    InitWith({d \in Doms : d[2] = 3 /\ d[3] = 4}, {TRUE}, {<<>>}, {MaxCap},
             {TRUE}, {FALSE})

ReporterNext ==
    \/ \E rawResults \in RawLists(dom) : ReporterProcessResults(rawResults)
    \/ ClearResults
    \/ \E format \in Formats : ExportResults(format)

ReporterSpec == ReporterInit /\ [][ReporterNext]_vars

(***************************************************************************)
(* The RuleEngine on its own: executeRules under every fault set, and       *)
(* updateEnabledRules.                                                      *)
(***************************************************************************)
RuleEngineInit ==
    InitWith(Doms, {TRUE}, {<<>>}, {MaxCap}, {TRUE}, {FALSE})

RuleEngineNext ==
    \/ \E elements \in ExecuteInputs :
          \E faults \in FaultSets : ExecuteRulesCall(elements, faults)
    \/ \E ruleIds \in EnableLists : UpdateEnabledRulesCall(ruleIds)

RuleEngineSpec == RuleEngineInit /\ [][RuleEngineNext]_vars

(***************************************************************************)
(* The heading rule on pages of up to MaxHeadings headings.                 *)
(***************************************************************************)
HeadingInit ==
    InitWith({d \in Doms : d[2] = 3 /\ d[3] = 4}, {TRUE}, {<<>>}, {MaxCap},
             {TRUE}, {FALSE})

HeadingNext == \E levels \in HeadingLists : CheckHeadings(levels)

HeadingSpec == HeadingInit /\ [][HeadingNext]_vars

(***************************************************************************)
(* The self-loading variant: start, mutation notifications and flushes.     *)
(***************************************************************************)
SelfLoadingInit ==
    InitWith(Doms, {TRUE}, {<<>>}, 1..MaxCap, {TRUE}, {TRUE})

SelfLoadingNext ==
    \/ StartSelfLoading
    \/ \E n \in Notifications : HandleMutations(n)
    \/ ProcessBatchSelfLoading
    \/ \E i \in DOMAIN passes : Resume(i, "none")

SelfLoadingSpec == SelfLoadingInit /\ [][SelfLoadingNext]_vars

(***************************************************************************)
(* Two images of the same markup, one inside the target and one beside it:  *)
(* direct analyze calls on them, and processResults on their violations.    *)
(***************************************************************************)
TwinInit ==
    InitWith({d \in Doms : d[2] = 3 /\ d[3] = 4}, {TRUE}, {<<>>}, {MaxCap},
             {TRUE}, {FALSE})

\* arrays of the two images (3 and 4) and the button
TwinInputs ==
    {[kind |-> "list", items |-> l] :
        l \in { <<3>>, <<4>>, <<3, 4>>, <<4, 3>>, <<2, 4>> }}

\* raw violations of the two images, lists of at most MaxRaw - 1 of them
TwinRawLists(d) ==
    LET violations == { Violation(d, 3, "missing-alt-text"),
                        Violation(d, 4, "missing-alt-text"),
                        [Violation(d, 4, "insufficient-color-contrast")
                            EXCEPT !.impact = 520] }
    IN UNION {[1..n -> violations] : n \in 0..(MaxRaw - 1)}

TwinNext ==
    \/ \E input \in TwinInputs : Analyze(input)
    \/ \E i \in DOMAIN passes : Resume(i, "none")
    \/ \E rawResults \in TwinRawLists(dom) : ReporterProcessResults(rawResults)

TwinSpec == TwinInit /\ [][TwinNext]_vars

(***************************************************************************)
(* The impact score over the contexts of an element.                        *)
(***************************************************************************)
ImpactInit ==
    InitWith({d \in Doms : d[2] = 3 /\ d[3] = 4}, {TRUE}, {<<>>}, {MaxCap},
             {TRUE}, {FALSE})

\* _calculateImpact keeps no state: one call per behaviour, on any context
ImpactNext ==
    lastOp.name = "init" /\ \E ctx \in Contexts : CalculateImpactCall(ctx)

ImpactSpec == ImpactInit /\ [][ImpactNext]_vars

(***************************************************************************)
(* Engines constructed with and without the realtime option.                *)
(***************************************************************************)
RealtimeInit ==
    InitWith(Doms, {TRUE}, {<<>>}, {MaxCap}, BOOLEAN, {TRUE})

RealtimeSpec == RealtimeInit /\ [][Next]_vars

(***************************************************************************)
(* Every operation of the engine on one document: start, stop, direct       *)
(* analyze calls, updateConfig, mutation notifications and flushes.         *)
(***************************************************************************)
EngineInit ==
    InitWith({d \in Doms : d[2] = 2 /\ d[3] = 4}, {TRUE}, {<<>>}, {MaxCap},
             {TRUE}, {TRUE})

\* one input of analyze, two rule lists and one mutation record
EngineNext ==
    \/ Start(NoOverride)
    \/ Stop
    \/ Analyze([kind |-> "list", items |-> <<2, 3>>])
    \/ \E l \in {<<>>, <<"missing-alt-text">>} :
          UpdateConfig([rulesGiven |-> TRUE, rules |-> l])
    \/ HandleMutations(<<[target |-> 3, addedNodes |-> <<>>]>>)
    \/ ProcessBatch
    \/ \E i \in DOMAIN passes : Resume(i, "none")

EngineSpec == EngineInit /\ [][EngineNext]_vars

(***************************************************************************)
(* Properties.                                                              *)
(***************************************************************************)
\* C1 (cache correctness): an analyze call runs no rule test on an element
\* that an earlier completed call analysed with the same fingerprint, with
\* no rule-set change and no stop() in between -- whether the element had
\* violations or passed every rule.  lastOp.redundant holds the (element,
\* rule) tests of the call that fall on such elements.
C1_NoRuleReExecution ==
    lastOp.calls = 1 => lastOp.redundant = {}

\* C2 (idempotence): when an analyze call completes and the completed call
\* before it was given the same elements with the same fingerprints under
\* the same enabled rule set, both return the same set of processed results
\* (ruleId, element, severity, impact).
C2_SameResultsOnRepeat ==
    ( /\ lastOp.completed
      /\ lastOp.prev.set
      /\ lastOp.prev.pairs = lastOp.pairs
      /\ lastOp.prev.enabled = lastOp.enabledAtCall )
    => Range(lastOp.value) = Range(lastOp.prev.value)

\* C3: after stop() on a running engine the observer is disconnected and
\* released, no debounce timer is pending, the queue and the cache are
\* empty, the engine is not running, and exactly one `stopped` notification,
\* carrying the statistics, has been emitted.
C3_StopResetsEngine ==
    (lastOp.name = "stop" /\ lastOp.wasStarted)
    => /\ ~observer
       /\ lastOp.observerBefore => connected = lastOp.connectedBefore - 1
       /\ debounceTimer # "pending"
       /\ analysisQueue = <<>>
       /\ cache = <<>>
       /\ ~isStarted
       /\ lastOp.events = << [name |-> "stopped", rulesEnabled |-> 0,
                              running |-> FALSE, stats |-> stats] >>

\* a running engine with analysed elements has just been stopped
C3_StoppedAfterAnalysis ==
    /\ lastOp.name = "stop"
    /\ lastOp.wasStarted
    /\ lastOp.observerBefore
    /\ stats.elementsProcessed > 0
    /\ ~isStarted

\* C4: when a required host capability is missing, start() rejects, and
\* afterwards the engine is not running, no observer is bound or connected,
\* no analysis was called or is in flight, and no notification was emitted.
C4_StartRejectsWithoutSupport ==
    (lastOp.name = "start" /\ ~hostSupport)
    => /\ lastOp.outcome = "rejected"
       /\ ~isStarted
       /\ ~observer
       /\ connected = 0
       /\ lastOp.calls = 0
       /\ passes = <<>>
       /\ stats.analysisCount = 0
       /\ lastOp.events = <<>>

\* start() has just been rejected on a host without the capabilities
C4_StartWasRejected ==
    lastOp.name = "start" /\ ~hostSupport /\ lastOp.outcome = "rejected"

\* C5 (batch cap): a flush that drains more than maxElements distinct
\* queued elements makes one analyze call, with exactly maxElements distinct
\* elements, all of them from the drained set.
C5_FlushCapsBatch ==
    (lastOp.name = "flush" /\ Len(lastOp.drained) > options.maxElements)
    => /\ lastOp.calls = 1
       /\ Len(lastOp.input.items) = options.maxElements
       /\ Cardinality(Range(lastOp.input.items)) = options.maxElements
       /\ Range(lastOp.input.items) \subseteq Range(lastOp.drained)

\* a flush has just drained more elements than the cap and called analyze
C5_FlushOverCap ==
    /\ lastOp.name = "flush"
    /\ Len(lastOp.drained) > options.maxElements
    /\ lastOp.calls = 1

\* C6: when updateConfig is given a rules list whose known ids differ from
\* the enabled rule set, then on return the enabled set is the ids of the
\* list that the catalog knows, the cache is empty, and on a running engine
\* a re-analysis has been called.  The property is stated for the non-empty
\* lists (the empty list is the default of the option, under which every
\* rule is enabled).
C6_ConfigAppliesRules ==
    ( /\ lastOp.name = "updateConfig"
      /\ lastOp.rulesGiven
      /\ lastOp.rules # <<>>
      /\ UpdateEnabledRules(lastOp.rules) # lastOp.enabledBefore )
    => /\ enabledRules = UpdateEnabledRules(lastOp.rules)
       /\ cache = <<>>
       /\ lastOp.wasStarted => (lastOp.calls = 1 /\ lastOp.kind = "config")

\* C7: an engine whose rules option is a non-empty list R has as its enabled
\* rule set the ids of R that the catalog knows, and the analysis that
\* start() or a flush calls runs only tests of rules in R.
C7_RulesOptionIsEnabledSet ==
    options.rules # <<>>
    => /\ enabledRules = UpdateEnabledRules(options.rules)
       /\ lastOp.kind \in {"start", "flush"}
             => \A p \in lastOp.ruleRuns : p[2] \in Range(options.rules)

\* the elements analyze is asked about: every given element with all of its
\* descendants
GivenWithDescendants(input) ==
    UNION { {e} \cup Range(QuerySelectorAll(e)) :
              e \in Range(input.items) \cap Elems }

\* C8: for a single element, a collection or an array, analyze analyses
\* every given element together with all of its descendants, each element
\* once.  lastOp.valid is the list the call analyses.
C8_AnalyzeNormalizesInput ==
    lastOp.name = "analyze"
    => /\ Range(lastOp.valid) = GivenWithDescendants(lastOp.input)
       /\ Len(lastOp.valid) = Cardinality(Range(lastOp.valid))

\* C9: a direct analyze call never rejects; for a null input, an empty
\* collection or a collection without element nodes it resolves to the
\* empty array, and so it does when rule execution or result processing
\* throws.
C9_AnalyzeNeverRejects ==
    /\ lastOp.kind = "analyze" => lastOp.outcome # "rejected"
    /\ ( /\ lastOp.name = "analyze"
         /\ \A i \in DOMAIN ArrayFrom(lastOp.input) :
                ArrayFrom(lastOp.input)[i] \notin Elems )
       => (lastOp.outcome = "resolved" /\ lastOp.value = <<>>)
    /\ ( /\ lastOp.name = "resume"
         /\ lastOp.kind = "analyze"
         /\ lastOp.fault # "none" )
       => (lastOp.outcome = "resolved" /\ lastOp.value = <<>>)

\* rule execution has just thrown inside a direct analyze call on elements,
\* and the call has resolved
C9_FaultWasCaught ==
    /\ lastOp.name = "resume"
    /\ lastOp.kind = "analyze"
    /\ lastOp.fault = "execute"
    /\ lastOp.valid # <<>>
    /\ lastOp.outcome = "resolved"

\* C10: when an analysis cycle completes on an engine with the UI enabled,
\* the UIManager's current results are the Reporter's latest results, the
\* empty list included.
C10_UIHoldsLatestResults ==
    (lastOp.completed /\ hasUI) => uiResults = results

\* C11 (ReporterSpec): for every list of raw violations, the deduplicated
\* list has no two entries with the same (ruleId, element key) pair, and it
\* is a subsequence of the input that keeps, for every pair of the input,
\* its first occurrence.
C11_DedupKeepsFirstOfEachPair ==
    lastOp.name = "processResults" =>
        LET given == lastOp.raw
            out == DeduplicateResults(dom, given)
            pair(x) == <<x.ruleId, GetElementKey(dom, x.element)>>
        IN /\ \A i, j \in DOMAIN out : pair(out[i]) = pair(out[j]) => i = j
           /\ \E pos \in [DOMAIN out -> DOMAIN given] :
                 /\ \A i, j \in DOMAIN out : i < j => pos[i] < pos[j]
                 /\ \A i \in DOMAIN out :
                       /\ out[i] = given[pos[i]]
                       /\ \A k \in 1..(pos[i] - 1) :
                             pair(given[k]) # pair(given[pos[i]])
           /\ \A k \in DOMAIN given :
                 \E i \in DOMAIN out : pair(out[i]) = pair(given[k])

\* a list with a repeated pair went through deduplication and lost an entry
\* while keeping several
C11_DuplicateWasDropped ==
    /\ lastOp.name = "processResults"
    /\ Len(DeduplicateResults(dom, lastOp.raw)) < Len(lastOp.raw)
    /\ Len(DeduplicateResults(dom, lastOp.raw)) > 1

\* C12 (ReporterSpec): in the list processResults returns, no warning or
\* info entry comes before an error entry, no info entry before a warning
\* entry, and of two entries of equal severity the earlier has the greater
\* or equal impact.
C12_ProcessedResultsAreSorted ==
    lastOp.name = "processResults" =>
        \A i, j \in DOMAIN lastOp.value :
            i < j =>
                LET a == lastOp.value[i]
                    b == lastOp.value[j]
                IN /\ b.severity = "error" => a.severity = "error"
                   /\ b.severity = "warning" => a.severity \in {"error", "warning"}
                   /\ a.severity = b.severity => a.impact >= b.impact

\* processResults returned a list in another order than it was given, with
\* two entries of one severity and different impact and an entry of another
\* severity
C12_SortReordered ==
    /\ lastOp.name = "processResults"
    /\ lastOp.value # DeduplicateResults(dom, lastOp.raw)
    /\ \E i, j \in DOMAIN lastOp.value :
          /\ i < j
          /\ lastOp.value[i].severity = lastOp.value[j].severity
          /\ lastOp.value[i].impact > lastOp.value[j].impact
    /\ \E i, j \in DOMAIN lastOp.value :
          lastOp.value[i].severity # lastOp.value[j].severity

\* C13 (ReporterSpec): after processResults and after clearResults the
\* summary's total is the number of held results, its errors, warnings and
\* info are the numbers of held results of that severity and add up to the
\* total, and its category counts add up to the total.
C13_SummaryCountsHeldResults ==
    lastOp.name \in {"processResults", "clearResults"} =>
        LET count(s) == Cardinality({i \in DOMAIN results : results[i].severity = s})
            RECURSIVE sum(_)
            sum(S) == IF S = {} THEN 0
                      ELSE LET c == CHOOSE x \in S : TRUE
                           IN summary.categories[c] + sum(S \ {c})
        IN /\ summary.total = Len(results)
           /\ summary.errors = count("error")
           /\ summary.warnings = count("warning")
           /\ summary.info = count("info")
           /\ summary.errors + summary.warnings + summary.info = summary.total
           /\ sum(DOMAIN summary.categories) = summary.total

\* processResults left results of several severities and categories, info
\* among them
C13_SummaryOfMixedResults ==
    /\ lastOp.name = "processResults"
    /\ summary.info > 0
    /\ summary.errors > 0
    /\ Cardinality(DOMAIN summary.categories) > 1

\* C14 (ReporterSpec): after processResults(X) the held results and the
\* summary are what X alone gives, whatever was held before: every held
\* result is an entry of X, and the summary counts the held results only.
C14_ProcessResultsReplacesHeldResults ==
    lastOp.name = "processResults" =>
        /\ results = PrioritizeResults(DeduplicateResults(dom, lastOp.raw))
        /\ \A i \in DOMAIN results : results[i] \in Range(lastOp.raw)
        /\ summary = UpdateSummary(PrioritizeResults(DeduplicateResults(dom, lastOp.raw)))
        /\ summary.total <= Len(lastOp.raw)

\* processResults was called while the Reporter held a violation that is
\* not in the new list
C14_EarlierViolationAbsent ==
    /\ lastOp.name = "processResults"
    /\ lastOp.dropped
    /\ results # <<>>

\* C15 (RuleEngineSpec): executeRules returns, for every element of the
\* list it is given (once for each time the element is listed) and every
\* rule, one violation when the rule is enabled, its selector matches the
\* element and its test resolves to a non-passing value, and no violation
\* otherwise; every violation is for an element of the list and a rule of
\* the catalog.
C15_OneViolationPerFailingPair ==
    lastOp.name = "executeRules" =>
        LET given == lastOp.input.items
            out == lastOp.value
            count(e, r) ==
                Cardinality({i \in DOMAIN out :
                                out[i].element = e /\ out[i].ruleId = r})
            listed(e) == Cardinality({i \in DOMAIN given : given[i] = e})
            fails(e, r) == /\ r \in enabledRules
                           /\ r \notin lastOp.faults.invalid
                           /\ SelectorMatches(r, dom, e)
                           /\ <<e, r>> \notin lastOp.faults.throwing
                           /\ ~RuleTest(r, dom, e)
        IN /\ \A i \in DOMAIN out :
                 out[i].element \in Elems /\ out[i].ruleId \in CatalogIds
           /\ \A e \in Elems, r \in CatalogIds :
                 count(e, r) = IF fails(e, r) THEN listed(e) ELSE 0

\* a run without faults returned a violation while a rule that the element
\* fails was disabled
C15_DisabledRuleWouldFail ==
    /\ lastOp.name = "executeRules"
    /\ lastOp.faults = NoFaults
    /\ lastOp.value # <<>>
    /\ \E i \in DOMAIN lastOp.input.items, r \in CatalogIds \ enabledRules :
          /\ lastOp.input.items[i] \in Elems
          /\ SelectorMatches(r, dom, lastOp.input.items[i])
          /\ ~RuleTest(r, dom, lastOp.input.items[i])

\* C16 (RuleEngineSpec): when the test of a rule throws for an element or
\* the selector of a rule is invalid, executeRules resolves, returns no
\* violation for that (element, rule) pair, and returns for the other pairs
\* what a run without the fault returns, in the same order.
C16_RuleErrorsAreSkipped ==
    lastOp.name = "executeRules" =>
        LET faulty(e, r) == \/ r \in lastOp.faults.invalid
                            \/ <<e, r>> \in lastOp.faults.throwing
        IN /\ lastOp.outcome = "resolved"
           /\ \A i \in DOMAIN lastOp.value :
                 ~faulty(lastOp.value[i].element, lastOp.value[i].ruleId)
           /\ lastOp.value =
                 SelectSeq(ExecuteRulesUnder(NoFaults, enabledRules, dom,
                                             lastOp.input.items, 1),
                           LAMBDA v : ~faulty(v.element, v.ruleId))

\* a run in which an enabled rule's test threw on a listed element, the
\* selector of another enabled rule was invalid, and a violation of a
\* third pair was returned
C16_FaultsWereSkipped ==
    /\ lastOp.name = "executeRules"
    /\ lastOp.value # <<>>
    /\ \E p \in lastOp.faults.throwing :
          /\ p[1] \in Range(lastOp.input.items)
          /\ p[2] \in enabledRules
          /\ SelectorMatches(p[2], dom, p[1])
    /\ lastOp.faults.invalid \cap enabledRules # {}

\* C17 (RuleEngineSpec): after updateEnabledRules(L) the enabled set is the
\* set of the ids of L that the catalog holds, and the call returns; in
\* every state the enabled set is within the catalog and getEnabledRules
\* has no undefined entry.
C17_EnabledSetIsListWithinCatalog ==
    /\ enabledRules \subseteq CatalogIds
    /\ \A id \in enabledRules : GetEnabledRules(enabledRules)[id] # "undefined"
    /\ lastOp.name = "updateEnabledRules" =>
          /\ lastOp.outcome = "returned"
          /\ enabledRules = Range(lastOp.rules) \cap CatalogIds

\* updateEnabledRules was given an unknown id, enabled something and
\* disabled a rule that an earlier updateEnabledRules had left enabled
C17_UnknownIdDropped ==
    /\ lastOp.name = "updateEnabledRules"
    /\ Range(lastOp.rules) \ CatalogIds # {}
    /\ enabledRules # {}
    /\ lastOp.enabledBefore # CatalogIds
    /\ lastOp.enabledBefore \ enabledRules # {}

\* C18 (HeadingSpec): a heading passes missing-heading-structure exactly when
\* it is the first heading of the document and an h1, or is not the first
\* and its level is at most one deeper than the level of the heading just
\* before it; so h1, h3 fails the h3 only and h1, h2, h3 fails none.
C18_HeadingPassesIffHierarchyKept ==
    lastOp.name = "checkHeadings" =>
        \A i \in DOMAIN lastOp.levels :
            (i \notin lastOp.failing) <=>
                IF i = 1 THEN lastOp.levels[1] = 1
                ELSE lastOp.levels[i] <= lastOp.levels[i - 1] + 1

\* C19 (ReporterSpec): the object that the text of exportResults("json")
\* parses to has summary.total equal to the number of held results and a
\* results array of that length; no entry has an element field, and every
\* entry's elementSelector is the selector of the held result.
C19_JSONExportRoundTrip ==
    (lastOp.name = "exportResults" /\ lastOp.kind = "json") =>
        LET parsed == lastOp.exported
        IN /\ parsed.summary.total = Len(results)
           /\ Len(parsed.results) = Len(results)
           /\ \A i \in DOMAIN parsed.results :
                 /\ "element" \notin DOMAIN parsed.results[i]
                 /\ parsed.results[i].elementSelector = results[i].selector
                 /\ parsed.results[i].ruleId = results[i].ruleId

\* a JSON export of several held results
C19_ExportedSeveralResults ==
    /\ lastOp.name = "exportResults"
    /\ lastOp.format = "json"
    /\ Len(lastOp.exported.results) > 1

\* C20 (ReporterSpec): exportResults with a format that is none of json,
\* csv and html (in any letter case) throws and returns no export, and the
\* step changes neither the Reporter's results and summary nor any field of
\* the engine.
C20_UnsupportedFormatThrows ==
    [][(/\ lastOp'.name = "exportResults"
        /\ ToLowerCase(lastOp'.format) \notin {"json", "csv", "html"})
       => (/\ lastOp'.outcome = "threw"
           /\ lastOp'.exported = <<>>
           /\ UNCHANGED <<results, summary, cache, stats, enabledRules,
                          isStarted, isAnalyzing, analysisQueue,
                          debounceTimer, pendingTimers, observer, options, uiResults>>)]_vars

\* exportResults threw on a Reporter that holds results
C20_ExportThrew ==
    /\ lastOp.name = "exportResults"
    /\ lastOp.outcome = "threw"
    /\ results # <<>>

\* C21 (Spec): a start() that starts the engine emits one `started`
\* notification, when its initial analysis has ended and with the engine
\* already marked running; the call of start() up to its await, which has
\* bound the observer, a start() that throws and a start() on a running
\* engine emit nothing, and nothing else emits `started`.
C21_StartedEmittedOnceWhenRunning ==
    /\ (lastOp.name = "resume" /\ lastOp.kind = "start") =>
          /\ Len(lastOp.events) = 1
          /\ lastOp.events[1].name = "started"
          /\ lastOp.events[1].running
          /\ isStarted
          /\ lastOp.outcome = "resolved"
          /\ stats.analysisCount > 0
    /\ lastOp.name = "start" => lastOp.events = <<>>
    /\ (lastOp.name = "start" /\ lastOp.outcome = "suspended" /\ options.realtime)
          => (observer /\ connected > lastOp.connectedBefore)
    /\ \A i \in DOMAIN lastOp.events :
          lastOp.events[i].name = "started" =>
              (lastOp.name = "resume" /\ lastOp.kind = "start")

\* the initial analysis of a start() has ended and `started` was emitted
C21_StartCompleted ==
    /\ lastOp.name = "resume"
    /\ lastOp.kind = "start"
    /\ lastOp.events # <<>>
    /\ stats.analysisCount > 0

\* C22 (Spec): stop() on an engine that is not running emits nothing and
\* changes no field of the engine; so a second stop() in a row changes
\* nothing.
C22_StopWhenNotRunningIsNoOp ==
    [][(lastOp'.name = "stop" /\ ~isStarted)
       => (/\ lastOp'.events = <<>>
           /\ UNCHANGED <<observer, connected, debounceTimer, pendingTimers, analysisQueue,
                          cache, stats, isStarted, isAnalyzing, passes,
                          enabledRules, results, summary, uiResults,
                          panelVisible, options>>)]_vars

\* stop() was called on an engine that had run, been stopped, and was not
\* running
C22_StoppedTwice ==
    /\ lastOp.name = "stop"
    /\ ~lastOp.wasStarted
    /\ stats.analysisCount > 0
    /\ passes = <<>>

\* C23 (EngineSpec): no step of the engine lowers analysisCount,
\* totalAnalysisTime, violationsFound or elementsProcessed.
C23_CountersNeverDecrease ==
    [][/\ stats'.analysisCount >= stats.analysisCount
       /\ stats'.totalAnalysisTime >= stats.totalAnalysisTime
       /\ stats'.violationsFound >= stats.violationsFound
       /\ stats'.elementsProcessed >= stats.elementsProcessed]_vars

\* start() was called on an engine that a stop() had stopped (the panel is
\* closed), with the counters of the earlier run still in place
C23_StartAfterStopKeepsCounters ==
    /\ lastOp.name = "start"
    /\ ~lastOp.wasStarted
    /\ ~panelVisible
    /\ stats.analysisCount > 0
    /\ stats.violationsFound > 0
    /\ stats.elementsProcessed > 0
    /\ stats.totalAnalysisTime > 0

\* C24 (RealtimeSpec): an engine constructed with realtime = false never
\* has an observer, a queued batch, a debounce timer or a flush, and every
\* analysis it runs is the initial analysis of a start().
C24_NoObserverWithoutRealtime ==
    ~options.realtime =>
        /\ ~observer
        /\ connected = 0
        /\ analysisQueue = <<>>
        /\ debounceTimer = "null"
        /\ ~isAnalyzing
        /\ lastOp.name \notin {"notify", "flush"}
        /\ \A i \in DOMAIN passes : passes[i].kind = "start"
        /\ lastOp.name = "resume" => lastOp.kind = "start"

\* an engine without realtime has been started and has done its initial
\* analysis
C24_StartedWithoutRealtime ==
    /\ ~options.realtime
    /\ isStarted
    /\ lastOp.name = "resume"
    /\ stats.analysisCount > 0

\* C25 (AnalyzeSpec): the number of cache entries stays within a fixed
\* limit, here CacheLimit, however many fingerprints are analysed.
C25_CacheSizeBounded == Cardinality(DOMAIN cache) <= CacheLimit

\* C26 (Spec): a mutation notification that reaches a running engine while
\* a flush is in flight puts its affected elements into the pending queue.
C26_NotificationDuringFlushIsQueued ==
    (/\ lastOp.name = "notify"
     /\ lastOp.wasStarted
     /\ lastOp.analyzingBefore
     /\ lastOp.valid # <<>>)
    => /\ analysisQueue # <<>>
       /\ analysisQueue[Len(analysisQueue)] = lastOp.valid

\* C27 (EngineSpec): a pass that was suspended in rule execution when stop()
\* ran writes, when it resumes, neither the cache nor the statistics nor
\* the results of the UI.
C27_StoppedPassIsDiscarded ==
    (/\ lastOp.name = "resume"
     /\ lastOp.kind \in {"flush", "analyze"}
     /\ lastOp.stopped
     /\ lastOp.calls = 1)
    => lastOp.wrote = {}

\* C28 (EngineSpec): at most one analysis pass is suspended in rule
\* execution at any time.
C28_NoOverlappingPasses == ExecCount <= 1

\* C29 (Spec): a flush whose deduplicated element set is larger than
\* maxElements hands analyze the maxElements most recently enqueued
\* elements of the set.
C29_FlushKeepsNewest ==
    (lastOp.name = "flush" /\ Len(lastOp.drained) > options.maxElements)
    => lastOp.input.items =
           SubSeq(lastOp.drained,
                  Len(lastOp.drained) - options.maxElements + 1,
                  Len(lastOp.drained))

\* C30 (EngineSpec): every cache entry is the violation of a rule that is
\* enabled now (as every entry computed under the enabled set is).
C30_CacheMatchesEnabledRules ==
    \A k \in DOMAIN cache : cache[k].ruleId \in enabledRules

\* the product 1.0 x severity x 2 if visible x 1.5 if interactive x 1.3 if
\* main, capped at 10, in hundredths
ImpactProduct(ctx, main) ==
    LET sev == CASE ctx.severity = "error" -> 300
                 [] ctx.severity = "warning" -> 200
                 [] ctx.severity = "info" -> 100
        vis == IF IsElementVisibleIn(ctx) THEN 2 * sev ELSE sev
        int == IF IsInteractiveElementIn(ctx) THEN (3 * vis) \div 2 ELSE vis
        mn  == IF main THEN (13 * int) \div 10 ELSE int
    IN IF mn > 1000 THEN 1000 ELSE mn

\* C31 as stated (ImpactSpec): the impact score is the capped product in
\* which the main-content factor 1.3 is applied exactly when the element is
\* inside a main landmark and inside no header, footer, nav or aside
\* landmark; the score lies between 1 and 10.
C31_MainFactorNeedsMainLandmark ==
    lastOp.name = "calculateImpact" =>
        /\ lastOp.impact =
               ImpactProduct(lastOp.ctx,
                             lastOp.ctx.inMain /\ ~lastOp.ctx.inNonMain)
        /\ lastOp.impact \in 100..1000

\* C31 amended (ImpactSpec): the impact score is the capped product in
\* which the main-content factor 1.3 is applied exactly when the element is
\* inside a main landmark, or is inside no header, footer, nav or aside
\* landmark; the score lies between 1 and 10.
C31_ImpactIsCappedProduct ==
    lastOp.name = "calculateImpact" =>
        /\ lastOp.impact =
               ImpactProduct(lastOp.ctx,
                             lastOp.ctx.inMain \/ ~lastOp.ctx.inNonMain)
        /\ lastOp.impact \in 100..1000

\* a warning on a visible element that is not interactive and lies inside
\* no landmark at all is scored 2 x 2 x 1.3
C31_ScoredOutsideEveryLandmark ==
    /\ lastOp.name = "calculateImpact"
    /\ lastOp.ctx.severity = "warning"
    /\ IsElementVisibleIn(lastOp.ctx)
    /\ ~IsInteractiveElementIn(lastOp.ctx)
    /\ ~lastOp.ctx.inMain
    /\ ~lastOp.ctx.inNonMain
    /\ lastOp.impact = 520

\* the position of rule r in the catalog
CatalogIndex(r) == CHOOSE k \in DOMAIN RuleIds : RuleIds[k] = r

\* the position of element e in the deduplicated list s
FirstIndex(s, e) ==
    CHOOSE k \in DOMAIN s : s[k] = e /\ \A j \in 1..(k - 1) : s[j] # e

\* C32 (AnalyzeSpec): the raw list that a completed analyze call hands to
\* processResults is ordered by the position of each violation's element in
\* the input (an input that names no element twice) and, within one
\* element, by the catalog order of the rules.
C32_RawResultsFollowInputOrder ==
    (/\ lastOp.name \in {"analyze", "resume"}
     /\ lastOp.raw # <<>>
     /\ Dedup(lastOp.valid) = lastOp.valid) =>
        \A i, j \in DOMAIN lastOp.raw :
            i < j =>
                LET a == lastOp.raw[i]
                    b == lastOp.raw[j]
                    pa == FirstIndex(lastOp.valid, a.element)
                    pb == FirstIndex(lastOp.valid, b.element)
                IN \/ pa < pb
                   \/ pa = pb /\ CatalogIndex(a.ruleId) < CatalogIndex(b.ruleId)

\* C33 (Spec): a notification that the handler accepts leaves exactly one
\* debounce timer pending, the one it has just armed, so at most one timer
\* is pending at any time; the handler itself starts no flush, and a flush
\* begins by the expiry of the pending timer, after which none is pending.
C33_TrailingEdgeDebounce ==
    /\ pendingTimers <= 1
    /\ (pendingTimers = 1) <=> (debounceTimer = "pending")
    /\ (/\ lastOp.name = "notify"
        /\ lastOp.wasStarted
        /\ ~lastOp.analyzingBefore
        /\ lastOp.valid # <<>>)
       => (debounceTimer = "pending" /\ pendingTimers = 1)
    /\ lastOp.name = "notify" =>
          /\ lastOp.calls = 0
          /\ isAnalyzing = lastOp.analyzingBefore
    /\ lastOp.name = "flush" =>
          /\ debounceTimer = "fired"
          /\ pendingTimers = 0

\* a second notification was accepted while the timer of the first was
\* pending: two batches wait for one timer
C33_TimerRearmed ==
    /\ lastOp.name = "notify"
    /\ lastOp.valid # <<>>
    /\ Len(analysisQueue) = 2
    /\ analysisQueue[2] = lastOp.valid
    /\ pendingTimers = 1

\* C35 (Spec): while the engine is running and no flush is in flight, a
\* non-empty pending queue has a debounce timer pending; and no flush is in
\* flight while the queue is non-empty, so the expiry of that timer drains
\* the queue.
C35_QueuedWorkHasTimer ==
    /\ (isStarted /\ ~isAnalyzing /\ analysisQueue # <<>>)
       => (debounceTimer = "pending" /\ pendingTimers > 0)
    /\ analysisQueue # <<>> => ~isAnalyzing
    /\ (lastOp.name = "flush" /\ ~lastOp.analyzingBefore) => analysisQueue = <<>>

\* after an earlier flush has run to its end, a notification has queued a
\* batch on the running engine
C35_QueuedAfterEarlierFlush ==
    /\ lastOp.name = "notify"
    /\ isStarted
    /\ ~isAnalyzing
    /\ analysisQueue # <<>>
    /\ stats.analysisCount >= 2

\* C34 (SelfLoadingSpec): a flush of the self-loading variant hands analyze
\* the deduplicated elements of the drained batches, capped at maxElements,
\* and analyses every one of them when they are within the cap.
C34_VariantFlushAnalysesQueue ==
    (/\ lastOp.name = "flush"
     /\ ~lastOp.analyzingBefore
     /\ lastOp.drained # <<>>)
    => /\ lastOp.input.items = Slice(lastOp.drained, options.maxElements)
       /\ Len(lastOp.drained) <= options.maxElements
             => (lastOp.calls = 1 /\ lastOp.valid = lastOp.drained)

\* C36 (Spec): at most one observer created by the engine is connected at
\* any time, and after a stop() of the running engine none is connected.
C36_OneObserverConnected ==
    /\ connected <= 1
    /\ (lastOp.name = "stop" /\ lastOp.wasStarted) => connected = 0

\* C39 (Spec): a notification that a connected observer delivers while
\* start() awaits its initial analysis, before the engine is marked
\* running, puts its affected elements into the pending queue for a later
\* flush.
C39_NotificationDuringStartIsQueued ==
    (/\ lastOp.name = "notify"
     /\ ~lastOp.wasStarted
     /\ ~lastOp.analyzingBefore
     /\ lastOp.valid # <<>>
     /\ \E i \in DOMAIN passes : passes[i].kind = "start" /\ ~passes[i].stopped)
    => /\ analysisQueue # <<>>
       /\ analysisQueue[Len(analysisQueue)] = lastOp.valid
       /\ debounceTimer = "pending"

\* C37 (TwinSpec): every violation that a completed direct analyze call
\* returns is a violation of an element of the call's input.
C37_ResultsReferenceInputElements ==
    (lastOp.kind = "analyze" /\ lastOp.completed) =>
        \A i \in DOMAIN lastOp.value :
            lastOp.value[i].element \in Range(lastOp.valid)

\* C38 (TwinSpec): processResults keeps, for every rule and every element
\* of which the raw list holds a violation, a violation of that rule on
\* that very element.
C38_DistinctElementsSurviveDedup ==
    lastOp.name = "processResults" =>
        \A k \in DOMAIN lastOp.raw :
            \E i \in DOMAIN lastOp.value :
                /\ lastOp.value[i].ruleId = lastOp.raw[k].ruleId
                /\ lastOp.value[i].element = lastOp.raw[k].element

====
